---- MODULE Spec2Model ----
(***************************************************************************)
(* Model of the mp-print job scheduling subsystem:                          *)
(*   QueueService   (src/src/services/QueueService.ts)                      *)
(*   PrintService   (src/src/services/PrintService.ts), the dispatcher      *)
(*   PrinterService (src/unnamed/part_009), the registry and its error gate *)
(*   POST /submit   (src/src/routes/print.ts)                               *)
(*   CircuitBreaker (src/src/utils/circuitBreaker.ts)                       *)
(*                                                                         *)
(* A PrintJob is one JavaScript object shared by reference between the      *)
(* queue map, the retained maps and the closure of the retry timer, so the  *)
(* model keeps one record per job id (jobs) and lets the maps hold ids.     *)
(* Every handler runs to its first await without interruption (Node's       *)
(* single-threaded event loop), which is the grain of the actions.          *)
(***************************************************************************)
EXTENDS Integers, Sequences, FiniteSets, TLC

(***************************************************************************)
(* Configuration (config.printing) and bounds of the model.                 *)
(***************************************************************************)
\* config.printing is read from the environment once, at start-up: the model
\* keeps it in the variable config, which no action changes.
QueueConfig == [maxQueueSize |-> 2, maxConcurrentJobs |-> 2, batchSize |-> 2,
                maxRetries |-> 1]
\* the configuration of the mixed-priority scenario: one job at a time and
\* MAX_RETRIES=0, so that a failed attempt is final
OrderConfig == [maxQueueSize |-> 3, maxConcurrentJobs |-> 1, batchSize |-> 2,
                maxRetries |-> 0]

\* number of job ids (uuidv4 values) the submission route may draw
MaxJobs == 3
\* last value of the millisecond clock Date.now(), counted from start-up,
\* at which a label is admitted
MaxNow == 1
\* number of calls of CircuitBreaker.execute
MaxCalls == 4
\* number of times the health probe finds a printer in another status
MaxStatusChanges == 1

\* number of copy tasks of printWithPuppeteer alive at a time
MaxCopyTasks == 3

\* cleanup keeps the last 1000 completed and the last 500 failed jobs: the
\* two caps, scaled down
KeepCompleted == 2
KeepFailed == 1

\* config.printing.retryDelay (RETRY_DELAY, default 2000 ms)
RetryDelay == 2000

\* isOnline: more than this many print errors make a printer unstable ...
UnstableErrors == 3
\* ... while the last of them is less than this many milliseconds old
UnstableWindow == 300000

\* the options of the breaker: the defaults of the constructor (5 failures,
\* 60000 ms, 300000 ms, 3 successes) scaled down
BreakerOptions == [failureThreshold |-> 2, resetTimeout |-> 2,
                   monitoringPeriod |-> 2, successThreshold |-> 2]
\* lastFailureTime before the first failure (null)
NoTime == 0 - 1

\* labels in one POST /submit
MaxBatch == 2
\* the largest PrinterStatus a probe reports
MaxStatusCode == 3
\* calls of checkPrinterHealth in progress at a time
MaxHealthRuns == 2
\* requests handled through withTimeout
MaxRequests == 3
\* calls of PrintService.initialize() on the singleton
MaxInitCalls == 5
\* health checks PrinterCache starts
MaxChecks == 4
\* PrinterCache options: maxConcurrentChecks
MaxConcurrentChecks == 2
\* validation.ts: copies: Joi.number().integer().min(1).max(10)
MinCopies == 1
MaxCopies == 10
\* the keys a label must have (validation.ts: .required())
RequiredFields == {"htmlContent", "printerName", "printMedia", "margin", "width", "height"}

PrinterNames == {"P1"}
\* a printer name no discovery ever returned
UnknownPrinter == "PX"
Priorities == {"low", "medium", "high"}
JobIds == 1..MaxJobs

NoJob == [id |-> 0, status |-> "none", priority |-> "low", timestamp |-> 0,
          retryCount |-> 0, printerName |-> "P1", error |-> "none"]

VARIABLES
    config,           \* config.printing
    queue,            \* QueueService.queue: the keys of the Map, in insertion order
    processingQueue,  \* QueueService.processingQueue
    completedJobs,    \* QueueService.completedJobs (keys)
    failedJobs,       \* QueueService.failedJobs (keys)
    jobs,             \* the PrintJob objects, by id
    retryTimers,      \* pending setTimeout callbacks of completeJob, by job id
    printers,         \* PrinterService.printers: status and jobsInQueue by name
    printerErrorCounts, \* PrinterService.printerErrorCounts
    printerLastError, \* PrinterService.printerLastError
    running,          \* jobs whose printLabel call is outstanding
    hung,             \* jobs whose printLabel call never returns
    attempts,         \* history: how many times each job entered processing
    admittedBeforeFirstTick, \* history: jobs admitted when the dispatcher first took one
    emitted,          \* events emitted by the last operation
    lastResult,       \* outcome of the last submission
    nextId,           \* next uuid to hand out
    now,              \* Date.now()
    breaker,          \* the fields of one CircuitBreaker
    pendingCalls,     \* operations started by execute and not yet settled
    breakerEvent,     \* what the last operation on the breaker did
    closedStreak,     \* history: failures recorded in a row while closed
    halfOpenSuccesses,\* history: successes recorded since the breaker was last
                      \* moved to half-open
    prevState,        \* history: the state of the breaker before the last
                      \* operation on it
    statusChanges,    \* history: probes that changed the status of a printer
    copyTasks,        \* printWithPuppeteer: the copy tasks of each job being printed
    lastPrint,        \* how the last call of printWithPuppeteer settled
    labelCopies,      \* label.copies of the request of each job, 0 while not printed
    spooled,          \* copies of each job PDFtoPrinter took, over all attempts
    singleton,        \* the PrintService singleton: isInitialized and its intervals
    cache,            \* PrinterCache: pendingHealthChecks and the checks in flight
    reqBody,          \* req.body of the last POST /submit
    response,         \* what the last POST /submit answered
    lifecycle,        \* the process: "running", "destroyed" (PrintService.destroy()
                      \* was called) or "exited" (process.exit was called)
    probed,           \* the printer and the PrinterStatus of the last health probe
    browser,          \* the Puppeteer browser: "connected" or "disconnected"
    recycling,        \* the jobs whose printLabel awaits reinitializeBrowser()
    healthRuns,       \* the calls of checkPrinterHealth that have not returned
    scheduled,        \* history: the delays of the retry timers armed for each job
    route             \* the requests handled through withTimeout

queueVars == <<queue, processingQueue, completedJobs, failedJobs, jobs, retryTimers,
               scheduled>>
gateVars == <<printerErrorCounts, printerLastError>>
breakerVars == <<breaker, pendingCalls, breakerEvent, closedStreak, halfOpenSuccesses,
                 prevState>>
copyVars == <<copyTasks, lastPrint>>
routeVars == <<reqBody, response>>
browserVars == <<browser, recycling>>
ledgerVars == <<labelCopies, spooled>>
processVars == <<lifecycle, probed, browserVars, healthRuns, route>>
otherVars == <<singleton, cache>>
hostVars == <<processVars, ledgerVars, otherVars>>
vars == <<config, queue, processingQueue, completedJobs, failedJobs, jobs, retryTimers,
          printers, printerErrorCounts, printerLastError, running, hung, attempts,
          admittedBeforeFirstTick, emitted, lastResult, nextId, now,
          breaker, pendingCalls, breakerEvent, closedStreak, halfOpenSuccesses,
          prevState, statusChanges,
          copyTasks, lastPrint, reqBody, response, lifecycle,
          probed, browser, recycling, healthRuns, route, scheduled,
          labelCopies, spooled, singleton, cache>>

(***************************************************************************)
(* Helpers on sequences.                                                    *)
(***************************************************************************)
Range(s) == {s[i] : i \in 1..Len(s)}
Min(a, b) == IF a < b THEN a ELSE b
Max(a, b) == IF a > b THEN a ELSE b
Remove(s, x) == SelectSeq(s, LAMBDA y : y # x)
Take(s, n) == SubSeq(s, 1, Min(n, Len(s)))

(***************************************************************************)
(* QueueService, as pure functions of the service's state q, a record with  *)
(* the fields queue, processingQueue, completedJobs, failedJobs, jobs,      *)
(* retryTimers and emitted.                                                 *)
(***************************************************************************)
QState == [queue |-> queue, processingQueue |-> processingQueue,
           completedJobs |-> completedJobs, failedJobs |-> failedJobs,
           jobs |-> jobs, retryTimers |-> retryTimers, emitted |-> {}]

\* priorityOrder of getNextJobs; 0 stands for undefined, what the table gives
\* for a priority that is not one of its keys
priorityOrder(p) == CASE p = "high" -> 3 [] p = "medium" -> 2 [] p = "low" -> 1
                      [] OTHER -> 0

\* mutant of compareJobs: the priorities compared the wrong way round
compareJobsAscending(a, b) ==
    IF priorityOrder(a.priority) # priorityOrder(b.priority)
    THEN IF priorityOrder(a.priority) = 0 \/ priorityOrder(b.priority) = 0
         THEN 0
         ELSE priorityOrder(a.priority) - priorityOrder(b.priority)
    ELSE a.timestamp - b.timestamp

\* the comparator handed to Array.prototype.sort in getNextJobs.  A number
\* minus undefined is NaN, which sort reads as 0: the two jobs keep the order
\* they have
compareJobs(a, b) ==
    IF priorityOrder(a.priority) # priorityOrder(b.priority)
    THEN IF priorityOrder(a.priority) = 0 \/ priorityOrder(b.priority) = 0
         THEN 0
         ELSE priorityOrder(b.priority) - priorityOrder(a.priority)
    ELSE a.timestamp - b.timestamp

\* Array.prototype.sort is stable: x goes after every element that does not
\* compare greater than it
RECURSIVE InsertSorted(_, _, _)
InsertSorted(s, x, J) ==
    IF s = <<>> THEN <<x>>
    ELSE IF compareJobs(J[s[1]], J[x]) <= 0
         THEN <<s[1]>> \o InsertSorted(Tail(s), x, J)
         ELSE <<x>> \o s

RECURSIVE SortJobs(_, _)
SortJobs(s, J) ==
    IF s = <<>> THEN <<>>
    ELSE InsertSorted(SortJobs(SubSeq(s, 1, Len(s) - 1), J), s[Len(s)], J)

\* mutant of availableJobs: the jobs in flight are not filtered out
availableJobsUnfiltered(q) == SortJobs(q.queue, q.jobs)

\* getNextJobs: filter, sort, slice
availableJobs(q) ==
    SortJobs(SelectSeq(q.queue, LAMBDA id : id \notin q.processingQueue), q.jobs)

nextBatch(q, n) == Take(availableJobs(q), n)

\* getNextJobs: mark the batch as processing
getNextJobs(q, n) ==
    LET batch == nextBatch(q, n) IN
    [q EXCEPT !.processingQueue = @ \cup Range(batch),
              !.jobs = [id \in DOMAIN @ |->
                          IF id \in Range(batch)
                          THEN [@[id] EXCEPT !.status = "processing"]
                          ELSE @[id]]]

\* mutant of addJobAdmits: the capacity check off by one
addJobAdmitsOneMore(q) == Len(q.queue) <= config.maxQueueSize

\* addJob: the capacity check
addJobAdmits(q) == Len(q.queue) < config.maxQueueSize

\* addJob, once the capacity check has passed
addJob(q, request) ==
    [q EXCEPT !.queue = Append(@, request.id),
              !.jobs[request.id] = [request EXCEPT !.status = "queued"],
              !.emitted = @ \cup {<<"jobAdded", request.id>>}]

\* mutant of mayRetry: one retry too many
mayRetryOnceMore(job) == job.retryCount <= config.maxRetries

\* completeJob: the retry test
mayRetry(job) == job.retryCount < config.maxRetries

\* mutant of completeJob: the id stays in the set of jobs in flight
completeJobKeepsProcessing(q, id, success, error) ==
    IF id \notin Range(q.queue) THEN q
    ELSE
      LET job == [q.jobs[id] EXCEPT
                     !.status = IF success THEN "completed" ELSE "failed",
                     !.error = IF error # "none" THEN error ELSE @]
          removed == [q EXCEPT !.queue = Remove(@, id)]
      IN IF success
         THEN [removed EXCEPT !.jobs[id] = job,
                              !.completedJobs = @ \cup {id},
                              !.emitted = @ \cup {<<"jobCompleted", id>>}]
         ELSE IF mayRetry(job)
              THEN [removed EXCEPT
                       !.jobs[id] = [job EXCEPT !.retryCount = @ + 1,
                                                !.status = "queued"],
                       !.retryTimers = @ \cup {id}]
              ELSE [removed EXCEPT !.jobs[id] = job,
                                   !.failedJobs = @ \cup {id},
                                   !.emitted = @ \cup {<<"jobFailed", id>>}]

\* completeJob(jobId, success, error)
completeJob(q, id, success, error) ==
    IF id \notin Range(q.queue) THEN q
    ELSE
      LET job == [q.jobs[id] EXCEPT
                     !.status = IF success THEN "completed" ELSE "failed",
                     !.error = IF error # "none" THEN error ELSE @]
          removed == [q EXCEPT !.processingQueue = @ \ {id},
                               !.queue = Remove(@, id)]
      IN IF success
         THEN [removed EXCEPT !.jobs[id] = job,
                              !.completedJobs = @ \cup {id},
                              !.emitted = @ \cup {<<"jobCompleted", id>>}]
         ELSE IF mayRetry(job)
              THEN [removed EXCEPT
                       !.jobs[id] = [job EXCEPT !.retryCount = @ + 1,
                                                !.status = "queued"],
                       !.retryTimers = @ \cup {id}]
              ELSE [removed EXCEPT !.jobs[id] = job,
                                   !.failedJobs = @ \cup {id},
                                   !.emitted = @ \cup {<<"jobFailed", id>>}]

\* mutant of retryCallback: the timer fires and the job is not put back
retryCallbackDropsJob(q, id) ==
    [q EXCEPT !.retryTimers = @ \ {id},
              !.emitted = @ \cup {<<"jobRetry", id>>}]

\* the callback of the retry timer set by completeJob
retryCallback(q, id) ==
    [q EXCEPT !.queue = IF id \in Range(@) THEN @ ELSE Append(@, id),
              !.retryTimers = @ \ {id},
              !.emitted = @ \cup {<<"jobRetry", id>>}]

\* getQueueStatus
getQueueStatus(q) ==
    [queued |-> Len(q.queue) - Cardinality(q.processingQueue),
     processing |-> Cardinality(q.processingQueue),
     completed |-> Cardinality(q.completedJobs),
     failed |-> Cardinality(q.failedJobs)]

\* getJob
getJob(q, id) ==
    IF id \in Range(q.queue) \cup q.completedJobs \cup q.failedJobs
    THEN q.jobs[id] ELSE NoJob

(***************************************************************************)
(* PrinterService registry.                                                 *)
(***************************************************************************)
\* mutant of isOnline: the gate closes at UnstableErrors errors already
isOnlineAtThreshold(P, name) ==
    /\ name \in DOMAIN P
    /\ P[name].status = "online"
    /\ ~(/\ printerErrorCounts[name] >= UnstableErrors
         /\ now - printerLastError[name] < UnstableWindow)

\* isOnline: the status, then the gate on recent print errors
isOnline(P, name) ==
    /\ name \in DOMAIN P
    /\ P[name].status = "online"
    /\ ~(/\ printerErrorCounts[name] > UnstableErrors
         /\ now - printerLastError[name] < UnstableWindow)

\* mutant of mapPrinterStatus: an unknown status is read as an error
mapPrinterStatusDefaultError(status) ==
    CASE status = 0 -> "online"
      [] status = 1 -> "offline"
      [] status = 2 -> "error"
      [] OTHER -> "error"

\* mapPrinterStatus
mapPrinterStatus(status) ==
    CASE status = 0 -> "online"
      [] status = 1 -> "offline"
      [] status = 2 -> "error"
      [] OTHER -> "offline"

NoProbe == [name |-> "none", status |-> 0]

\* the static and the instance fields of the PrintService singleton before
\* initialize() is called: no interval handle (0), no interval alive; calls
\* and handles count the calls made and the pairs of intervals set
NewSingleton == [isInitialized |-> FALSE, pending |-> 0, calls |-> 0, handles |-> 0,
                 processingInterval |-> 0, metricsInterval |-> 0,
                 processingTickers |-> {}, metricsTickers |-> {}]

\* the names of the printers PrinterCache holds
CachedNames == {"P1", "P2", "P3"}

\* PrinterCache after initialize(): no health check pending or in flight
NewCache == [pendingHealthChecks |-> {}, inFlight |-> [name \in CachedNames |-> 0],
             started |-> 0]

updateJobCount(P, name, delta) ==
    IF name \in DOMAIN P
    THEN [P EXCEPT ![name].jobsInQueue = Max(0, @ + delta)]
    ELSE P

(***************************************************************************)
(* PrintService: the dispatcher.  processJob runs synchronously up to its   *)
(* await of printLabel, so the availability check, a failure caused by it   *)
(* and the finally block of such a failure all happen inside the tick.      *)
(***************************************************************************)
\* processJob up to the await: d is a record of the queue state q, the
\* registry P and the set R of outstanding printLabel calls
processJobStart(d, id) ==
    LET name == d.q.jobs[id].printerName IN
    IF ~isOnline(d.P, name)
    THEN [d EXCEPT !.q = completeJob(@, id, FALSE, "unavailable"),
                   !.P = updateJobCount(@, name, -1)]
    ELSE [d EXCEPT !.P = updateJobCount(@, name, 1),
                   !.R = @ \cup {id}]

\* mutant of processBatch: the first job that fails ends the tick
RECURSIVE processBatchUntilFailure(_, _)
processBatchUntilFailure(d, batch) ==
    IF batch = <<>> THEN d
    ELSE IF ~isOnline(d.P, d.q.jobs[batch[1]].printerName)
         THEN processJobStart(d, batch[1])
         ELSE processBatchUntilFailure(processJobStart(d, batch[1]), Tail(batch))

\* jobs.map(job => this.processJob(job)), under Promise.allSettled
RECURSIVE processBatch(_, _)
processBatch(d, batch) ==
    IF batch = <<>> THEN d
    ELSE processBatch(processJobStart(d, batch[1]), Tail(batch))

\* processJob after printLabel has settled
processJobEnd(d, id, success) ==
    LET name == d.q.jobs[id].printerName IN
    [d EXCEPT !.q = completeJob(@, id, success, IF success THEN "none" ELSE "print"),
              !.P = updateJobCount(@, name, -1),
              !.R = @ \ {id}]

\* mutant of availableSlots: the jobs in flight are not subtracted
availableSlotsIgnoringInFlight(q) == config.maxConcurrentJobs

\* processJobs: the slots the tick may fill
availableSlots(q) == config.maxConcurrentJobs - getQueueStatus(q).processing

DState == [q |-> QState, P |-> printers, R |-> running]

\* mutant of timerDelay: every retry waits retryDelay
timerDelayFlat(job) == RetryDelay

\* completeJob: the delay handed to setTimeout, computed after the increment
\* of retryCount
timerDelay(job) == RetryDelay * job.retryCount

SetQueue(q) ==
    /\ scheduled' = [id \in JobIds |->
                        IF id \in q.retryTimers \ retryTimers
                        THEN Append(scheduled[id], timerDelay(q.jobs[id]))
                        ELSE scheduled[id]]
    /\ queue' = q.queue
    /\ processingQueue' = q.processingQueue
    /\ completedJobs' = q.completedJobs
    /\ failedJobs' = q.failedJobs
    /\ jobs' = q.jobs
    /\ retryTimers' = q.retryTimers
    /\ emitted' = q.emitted

(***************************************************************************)
(* CircuitBreaker, as pure functions of the object's fields b and of the    *)
(* value t of Date.now().  The statistics that no decision reads            *)
(* (totalFailures, totalSuccesses, lastSuccessTime) are left out.           *)
(***************************************************************************)
\* the fields after construction
NewBreaker == [state |-> "CLOSED", failureCount |-> 0, successCount |-> 0,
               lastFailureTime |-> NoTime, nextAttempt |-> 0, totalRequests |-> 0]

\* open()
open(b, t) ==
    [b EXCEPT !.state = "OPEN", !.nextAttempt = t + BreakerOptions.resetTimeout]

\* mutant of reset: the failure count survives the closing
resetKeepsFailureCount(b) ==
    [b EXCEPT !.state = "CLOSED", !.successCount = 0, !.nextAttempt = 0]

\* reset()
reset(b) ==
    [b EXCEPT !.state = "CLOSED", !.failureCount = 0, !.successCount = 0,
              !.nextAttempt = 0]

\* mutant of rejects: the last millisecond before nextAttempt is let through
rejectsUntilLastMs(b, t) == b.state = "OPEN" /\ t + 1 < b.nextAttempt

\* execute: the call is turned away
rejects(b, t) == b.state = "OPEN" /\ t < b.nextAttempt

\* execute up to the await of the operation, when the call is not turned away
admit(b, t) ==
    LET counted == [b EXCEPT !.totalRequests = @ + 1]
    IN IF b.state = "OPEN"
       THEN [counted EXCEPT !.state = "HALF_OPEN", !.successCount = 0]
       ELSE counted

\* mutant of onSuccess: the first success in half-open closes the breaker
onSuccessClosesAtOnce(b, t) ==
    IF b.state = "HALF_OPEN"
    THEN reset(b)
    ELSE IF b.state = "CLOSED"
         THEN [b EXCEPT !.failureCount = 0]
         ELSE b

\* onSuccess()
onSuccess(b, t) ==
    IF b.state = "HALF_OPEN"
    THEN LET counted == [b EXCEPT !.successCount = @ + 1]
         IN IF counted.successCount >= BreakerOptions.successThreshold
            THEN reset(counted)
            ELSE counted
    ELSE IF b.state = "CLOSED"
         THEN [b EXCEPT !.failureCount = 0]
         ELSE b

\* mutant of thresholdReached: the threshold has to be exceeded
thresholdExceeded(b) == b.failureCount > BreakerOptions.failureThreshold

\* onFailure: the test that opens a closed breaker
thresholdReached(b) == b.failureCount >= BreakerOptions.failureThreshold

\* mutant of onFailure: a half-open breaker that has seen a success stays
\* half-open on a failure
onFailureForgiving(b, t) ==
    LET counted == [b EXCEPT !.lastFailureTime = t, !.failureCount = @ + 1]
    IN IF counted.state = "HALF_OPEN"
       THEN IF counted.successCount = 0 THEN open(counted, t) ELSE counted
       ELSE IF counted.state = "CLOSED"
            THEN IF thresholdReached(counted) THEN open(counted, t) ELSE counted
            ELSE counted

\* onFailure()
onFailure(b, t) ==
    LET counted == [b EXCEPT !.lastFailureTime = t, !.failureCount = @ + 1]
    IN IF counted.state = "HALF_OPEN"
       THEN open(counted, t)
       ELSE IF counted.state = "CLOSED"
            THEN LET monitoringWindow == t - BreakerOptions.monitoringPeriod
                     fresh == IF /\ counted.lastFailureTime # NoTime
                                 /\ counted.lastFailureTime < monitoringWindow
                              THEN [counted EXCEPT !.failureCount = 1]
                              ELSE counted
                 IN IF thresholdReached(fresh) THEN open(fresh, t) ELSE fresh
            ELSE counted

\* isAvailable()
isAvailable(b, t) ==
    \/ b.state = "CLOSED"
    \/ b.state = "OPEN" /\ t >= b.nextAttempt
    \/ b.state = "HALF_OPEN"

\* history: no failure recorded since the breaker was last closed, or since
\* its last success
NoStreak == [count |-> 0, since |-> 0]

(***************************************************************************)
(* PrinterService.printWithPuppeteer: one copy task per requested copy.     *)
(* A task renders the PDF ("pdf"), names and writes its temp file and hands *)
(* it to the spooler ("file"), and ends "ok" or "failed".                   *)
(***************************************************************************)
\* the tasks Array.from({length: label.copies}, ...) creates
newCopyTasks(copies) == [k \in 1..copies |-> [stage |-> "pdf", timestamp |-> 0]]

\* pdfFileName of copy copyNumber: parallel_${timestamp}_${copyNumber}.pdf
pdfFileName(timestamp, copyNumber) == <<"parallel", timestamp, copyNumber>>

\* results.filter(fulfilled and success).length
successfulCopies(tasks) == Cardinality({k \in DOMAIN tasks : tasks[k].stage = "ok"})

\* results.filter(rejected or not success).length
failedCopies(tasks) == Cardinality({k \in DOMAIN tasks : tasks[k].stage = "failed"})

\* mutant of mostlyFailed: a tie counts as a failure
mostlyFailedOrTie(tasks) == failedCopies(tasks) >= successfulCopies(tasks)

\* the test "more than half failed" of the partial success
mostlyFailed(tasks) == failedCopies(tasks) > successfulCopies(tasks)

\* the evaluation of the results: printWithPuppeteer returns or throws
copiesResult(tasks) ==
    IF successfulCopies(tasks) = Len(tasks) THEN "resolved"
    ELSE IF successfulCopies(tasks) > 0
         THEN IF mostlyFailed(tasks) THEN "rejected" ELSE "resolved"
         ELSE "rejected"

NoPrint == [job |-> 0, copies |-> 0, successful |-> 0, result |-> "none"]

\* the copy tasks alive, over all the jobs being printed
RECURSIVE CountTasks(_, _)
CountTasks(T, ids) ==
    IF ids = {} THEN 0
    ELSE LET id == CHOOSE x \in ids : TRUE
         IN Len(T[id]) + CountTasks(T, ids \ {id})

(***************************************************************************)
(* POST /submit: the validation middleware and the route handler.  A label  *)
(* is a record of its printerName, whether its htmlContent is base64, the   *)
(* required keys it lacks, and its copies (hasCopies tells whether the key  *)
(* is there); metadata is a record of whether the key is there and of its   *)
(* priority ("none" when metadata has no priority).                         *)
(***************************************************************************)
\* mutant of validLabel: any number of copies passes
validLabelAnyCopies(label) ==
    /\ label.base64
    /\ label.missing \cap RequiredFields = {}

\* the label schema of printRequestSchema
validLabel(label) ==
    /\ label.base64
    /\ label.missing \cap RequiredFields = {}
    /\ label.hasCopies => label.copies >= MinCopies /\ label.copies <= MaxCopies

\* printRequestSchema.validate(req.body) reports no error
validate(body) ==
    /\ Len(body.labels) >= 1
    /\ \A i \in 1..Len(body.labels) : validLabel(body.labels[i])
    /\ body.metadata.present
    /\ body.metadata.priority \in {"low", "medium", "high", "none"}

\* the handler's locals: the queue state q, the next uuid, the two arrays
NewSubmission == [q |-> QState, nextId |-> nextId,
                  successfulJobs |-> <<>>, failedLabels |-> <<>>]

\* mutant of submitLabel: a label that addJob refuses is not recorded
submitLabelDropsRefused(h, label, i, metadata, t) ==
    IF label.printerName \notin DOMAIN printers
    THEN [h EXCEPT !.failedLabels = Append(@, [label |-> i, error |-> "notFound"])]
    ELSE IF printers[label.printerName].status # "online"
    THEN [h EXCEPT !.failedLabels = Append(@, [label |-> i, error |-> "notOnline"])]
    ELSE IF ~addJobAdmits(h.q)
    THEN h
    ELSE [h EXCEPT
             !.q = addJob(@, [id |-> h.nextId, status |-> "none",
                              priority |-> metadata.priority, timestamp |-> t,
                              retryCount |-> 0, printerName |-> label.printerName,
                              error |-> "none"]),
             !.nextId = @ + 1,
             !.successfulJobs = Append(@, h.nextId)]

\* the body of the handler's loop for label number i of the batch, at time t:
\* a label ends in failedLabels when its printer is unknown or not online or
\* when addJob throws, and in successfulJobs otherwise.  The five-second timer
\* the newer handler races against this body never wins: the body has no
\* await and has settled before the race is awaited.
submitLabel(h, label, i, metadata, t) ==
    IF label.printerName \notin DOMAIN printers
    THEN [h EXCEPT !.failedLabels = Append(@, [label |-> i, error |-> "notFound"])]
    ELSE IF printers[label.printerName].status # "online"
    THEN [h EXCEPT !.failedLabels = Append(@, [label |-> i, error |-> "notOnline"])]
    ELSE IF ~addJobAdmits(h.q)
    THEN [h EXCEPT !.failedLabels = Append(@, [label |-> i, error |-> "QueueFull"])]
    ELSE [h EXCEPT
             !.q = addJob(@, [id |-> h.nextId, status |-> "none",
                              priority |-> metadata.priority, timestamp |-> t,
                              retryCount |-> 0, printerName |-> label.printerName,
                              error |-> "none"]),
             !.nextId = @ + 1,
             !.successfulJobs = Append(@, h.nextId)]

\* the loop over labels, from label number i on
RECURSIVE submitLabels(_, _, _, _)
submitLabels(h, body, i, t) ==
    IF i > Len(body.labels) THEN h
    ELSE submitLabels(submitLabel(h, body.labels[i], i, body.metadata, t), body, i + 1, t)

\* mutant of responseStatus: one admitted label is enough for 200
responseStatusAnyAdmitted(h) ==
    IF Len(h.successfulJobs) > 0 THEN 200
    ELSE IF Len(h.successfulJobs) > 0 /\ Len(h.failedLabels) > 0 THEN 207
    ELSE 400

\* the handler's choice of the status of its answer
responseStatus(h) ==
    IF Len(h.successfulJobs) > 0 /\ Len(h.failedLabels) = 0 THEN 200
    ELSE IF Len(h.successfulJobs) > 0 /\ Len(h.failedLabels) > 0 THEN 207
    ELSE 400

NoRequest == [labels |-> <<>>, metadata |-> [present |-> FALSE, priority |-> "none"]]
NoResponse == [by |-> "none", status |-> 0, successfulJobs |-> <<>>,
               failedLabels |-> <<>>, totalLabels |-> 0]

(***************************************************************************)
(* withTimeout: the wrapper of the route handlers.  A request is a record   *)
(* of the handler ("idle" before the request, "running", "finished"), the   *)
(* timer of the wrapper, whether Promise.race has settled and for whom, the *)
(* responses written to the socket, and what the handler did at its end.    *)
(***************************************************************************)
NoExchange == [handler |-> "idle", timer |-> "none", settled |-> "none",
               sent |-> <<>>, tried |-> 0]

\* res.headersSent
headersSent(r) == r.sent # <<>>

\* mutant of catchStatus: every error is answered 500
catchStatusAlways500(kind) == 500

\* the catch block of the wrapper: 504 when the message of the error
\* includes "timeout", 500 otherwise
catchStatus(kind) == IF kind = "timeout" THEN 504 ELSE 500

\* the catch block of the wrapper
catchBlock(r, kind) ==
    IF headersSent(r) THEN r ELSE [r EXCEPT !.sent = <<catchStatus(kind)>>]

\* Promise.race settles for the first of handler and timer; what the other
\* one does later reaches no catch block
settle(r, who) == IF r.settled = "none" THEN [r EXCEPT !.settled = who] ELSE r

(***************************************************************************)
(* Actions.                                                                 *)
(***************************************************************************)
\* POST /submit: validatePrintRequest, then the handler.  The handler runs
\* without a pause, so every label of the batch is stamped with the same
\* Date.now(); dt is how far the clock has moved on since the last step.
SubmitBatch(body, dt) ==
    /\ nextId + Len(body.labels) - 1 <= MaxJobs
    /\ now + dt <= MaxNow
    /\ now' = now + dt
    /\ reqBody' = body
    /\ IF ~validate(body)
       THEN /\ response' = [NoResponse EXCEPT !.by = "validation", !.status = 400]
            /\ emitted' = {}
            /\ UNCHANGED <<queueVars, nextId>>
       ELSE LET h == submitLabels(NewSubmission, body, 1, now + dt)
            IN /\ SetQueue(h.q)
               /\ nextId' = h.nextId
               /\ response' = [by |-> "handler", status |-> responseStatus(h),
                               successfulJobs |-> h.successfulJobs,
                               failedLabels |-> h.failedLabels,
                               totalLabels |-> Len(body.labels)]
    /\ lastResult' = "none"
    /\ UNCHANGED <<config, printers, running, hung, attempts, admittedBeforeFirstTick,
                   gateVars, breakerVars, statusChanges, copyVars, hostVars>>

\* POST /submit, one label of the batch (routes/print.ts, the loop body);
\* dt is how far Date.now() has moved on since the previous admission
SubmitLabel(name, priority, dt) ==
    /\ nextId <= MaxJobs
    /\ now + dt <= MaxNow
    /\ now' = now + dt
    /\ IF name \notin DOMAIN printers
       THEN /\ lastResult' = "notFound"
            /\ emitted' = {}
            /\ UNCHANGED <<queueVars, nextId>>
       ELSE IF printers[name].status # "online"
       THEN /\ lastResult' = "notOnline"
            /\ emitted' = {}
            /\ UNCHANGED <<queueVars, nextId>>
       ELSE IF ~addJobAdmits(QState)
       THEN /\ lastResult' = "QueueFull"
            /\ emitted' = {}
            /\ UNCHANGED <<queueVars, nextId>>
       ELSE /\ SetQueue(addJob(QState,
                   [id |-> nextId, status |-> "none", priority |-> priority,
                    timestamp |-> now + dt, retryCount |-> 0, printerName |-> name,
                    error |-> "none"]))
            /\ lastResult' = "admitted"
            /\ nextId' = nextId + 1
    /\ UNCHANGED <<config, printers, running, hung, attempts, admittedBeforeFirstTick,
                   gateVars, breakerVars, statusChanges,
                   copyVars, routeVars, hostVars>>

\* printLabel, before it prints: the calls that find no connected browser
\* each await reinitializeBrowser()
needsBrowser(b, started) == IF b = "connected" THEN {} ELSE started

\* the 1-second dispatcher tick: processJobs.  destroy() clears the interval.
\* Each job started runs printLabel up to its first await.
Tick ==
    /\ lifecycle = "running"
    /\ availableSlots(QState) > 0
    /\ LET n == Min(availableSlots(QState), config.batchSize)
           batch == nextBatch(QState, n)
           d == processBatch([DState EXCEPT !.q = getNextJobs(QState, n)], batch)
       IN /\ batch # <<>>
          /\ SetQueue(d.q)
          /\ printers' = d.P
          /\ running' = d.R
          /\ attempts' = [id \in JobIds |->
                            IF id \in Range(batch) THEN attempts[id] + 1 ELSE attempts[id]]
          /\ admittedBeforeFirstTick' =
                 IF admittedBeforeFirstTick = 0 THEN nextId - 1 ELSE admittedBeforeFirstTick
          /\ recycling' = recycling \cup needsBrowser(browser, d.R \ running)
    /\ lastResult' = "none"
    /\ UNCHANGED <<config, hung, nextId, now, gateVars, breakerVars, statusChanges,
                   copyVars, routeVars, lifecycle, probed, browser, healthRuns,
                   route, ledgerVars, otherVars>>

\* printLabel resolves (success) or rejects: it resets or raises the error
\* count of its printer, then processJob goes on.  A call that awaits
\* reinitializeBrowser() can only reject: the launch threw, or left no
\* connected browser
PrintReturns(id, success) ==
    /\ id \in running
    /\ success => id \notin recycling
    /\ recycling' = recycling \ {id}
    /\ LET d == processJobEnd(DState, id, success)
           name == jobs[id].printerName
       IN /\ SetQueue(d.q)
          /\ printers' = d.P
          /\ running' = d.R
          /\ printerErrorCounts' =
                 [printerErrorCounts EXCEPT ![name] = IF success THEN 0 ELSE @ + 1]
          /\ printerLastError' =
                 IF success THEN printerLastError
                 ELSE [printerLastError EXCEPT ![name] = now]
    /\ lastResult' = "none"
    /\ UNCHANGED <<config, hung, attempts, admittedBeforeFirstTick, nextId, now,
                   breakerVars, statusChanges,
                   copyVars, routeVars, lifecycle, probed, browser, healthRuns,
                   route, ledgerVars, otherVars>>

\* the render or spool call made by printLabel never returns
CallHangs(id) ==
    /\ id \in running
    /\ running' = running \ {id}
    /\ hung' = hung \cup {id}
    /\ emitted' = {}
    /\ lastResult' = "none"
    /\ UNCHANGED <<config, queueVars, printers, attempts, admittedBeforeFirstTick,
                   nextId, now, gateVars, breakerVars, statusChanges,
                   copyVars, routeVars, hostVars>>

\* the retry timer of completeJob fires
RetryTimerFires(id) ==
    /\ id \in retryTimers
    /\ SetQueue(retryCallback(QState, id))
    /\ lastResult' = "none"
    /\ UNCHANGED <<config, printers, running, hung, attempts, admittedBeforeFirstTick,
                   nextId, now, gateVars, breakerVars, statusChanges,
                   copyVars, routeVars, hostVars>>

\* checkPrinterHealth, one printer: the probe returns no data ("none"),
\* reports a PrinterStatus that mapPrinterStatus turns into outcome, or
\* throws.  The errorCount field of the record, which nothing reads, is
\* left out.
HealthProbe(name, outcome) ==
    /\ name \in DOMAIN printers
    /\ IF outcome = "none"
       THEN /\ printers' = [printers EXCEPT ![name].status = "offline"]
            /\ UNCHANGED gateVars
       ELSE IF outcome = "throws"
       THEN /\ printers' = [printers EXCEPT ![name].status = "error"]
            /\ printerErrorCounts' = [printerErrorCounts EXCEPT ![name] = @ + 1]
            /\ printerLastError' = [printerLastError EXCEPT ![name] = now]
       ELSE /\ printers' = [printers EXCEPT ![name].status = outcome]
            /\ printerErrorCounts' =
                   IF outcome # printers[name].status /\ outcome = "online"
                   THEN [printerErrorCounts EXCEPT ![name] = 0]
                   ELSE printerErrorCounts
            /\ UNCHANGED printerLastError
    /\ emitted' = {}
    /\ lastResult' = "none"
    /\ UNCHANGED <<config, queueVars, running, hung, attempts, admittedBeforeFirstTick,
                   nextId, now, breakerVars, copyVars, routeVars, lifecycle,
                   browserVars, route, ledgerVars, otherVars>>
    /\ statusChanges' =
           IF printers'[name].status # printers[name].status
           THEN statusChanges + 1 ELSE statusChanges

\* checkPrinterHealth, one printer, where the status reported is of no
\* interest
CheckPrinterHealth(name, outcome) ==
    /\ HealthProbe(name, outcome)
    /\ UNCHANGED <<probed, healthRuns, route, ledgerVars, otherVars>>

\* checkPrinterHealth, one printer: the probe reports the PrinterStatus status
ProbeReports(name, status) ==
    /\ HealthProbe(name, mapPrinterStatus(status))
    /\ probed' = [name |-> name, status |-> status]
    /\ UNCHANGED <<healthRuns, route, ledgerVars, otherVars>>

\* the variables of the queue, the dispatcher and the registry
serviceVars == <<config, queueVars, printers, gateVars, running, hung, attempts,
                 admittedBeforeFirstTick, emitted, lastResult, nextId, statusChanges>>

\* CircuitBreaker.execute up to the await of the operation: the call is
\* turned away, or the operation is started
Execute ==
    /\ breaker.totalRequests < MaxCalls
    /\ IF rejects(breaker, now)
       THEN /\ breaker' = [breaker EXCEPT !.totalRequests = @ + 1]
            /\ breakerEvent' = "rejected"
            /\ UNCHANGED <<pendingCalls, closedStreak, halfOpenSuccesses>>
       ELSE /\ breaker' = admit(breaker, now)
            /\ breakerEvent' = "started"
            /\ pendingCalls' = pendingCalls + 1
            /\ closedStreak' = IF breaker.state = "OPEN" THEN NoStreak ELSE closedStreak
            /\ halfOpenSuccesses' = IF breaker.state = "OPEN" THEN 0 ELSE halfOpenSuccesses
    /\ prevState' = breaker.state
    /\ UNCHANGED <<serviceVars, now, copyVars, routeVars, hostVars>>

\* the operation resolves: execute calls onSuccess
OperationSucceeds ==
    /\ pendingCalls > 0
    /\ pendingCalls' = pendingCalls - 1
    /\ breaker' = onSuccess(breaker, now)
    /\ breakerEvent' = "success"
    /\ closedStreak' = IF breaker.state = "OPEN" THEN closedStreak ELSE NoStreak
    /\ halfOpenSuccesses' =
           IF breaker.state = "HALF_OPEN" THEN halfOpenSuccesses + 1 ELSE halfOpenSuccesses
    /\ prevState' = breaker.state
    /\ UNCHANGED <<serviceVars, now, copyVars, routeVars, hostVars>>

\* the operation rejects: execute calls onFailure
OperationFails ==
    /\ pendingCalls > 0
    /\ pendingCalls' = pendingCalls - 1
    /\ breaker' = onFailure(breaker, now)
    /\ breakerEvent' = "failure"
    /\ closedStreak' =
           IF breaker.state = "CLOSED"
           THEN [count |-> closedStreak.count + 1,
                 since |-> IF closedStreak.count = 0 THEN now ELSE closedStreak.since]
           ELSE closedStreak
    /\ prevState' = breaker.state
    /\ UNCHANGED <<serviceVars, now, halfOpenSuccesses, copyVars, routeVars, hostVars>>

\* forceOpen()
ForceOpen ==
    /\ breaker' = open(breaker, now)
    /\ breakerEvent' = "forceOpen"
    /\ closedStreak' = NoStreak
    /\ prevState' = breaker.state
    /\ UNCHANGED <<serviceVars, now, pendingCalls, halfOpenSuccesses, copyVars, routeVars,
                   hostVars>>

\* forceClose()
ForceClose ==
    /\ breaker' = reset(breaker)
    /\ breakerEvent' = "forceClose"
    /\ closedStreak' = NoStreak
    /\ prevState' = breaker.state
    /\ UNCHANGED <<serviceVars, now, pendingCalls, halfOpenSuccesses, copyVars, routeVars,
                   hostVars>>

\* a millisecond passes between two operations on the breaker
TimePasses ==
    /\ now < MaxNow + BreakerOptions.resetTimeout
    /\ now' = now + 1
    /\ breakerEvent' = "none"
    /\ UNCHANGED <<serviceVars, breaker, pendingCalls, closedStreak, halfOpenSuccesses,
                   prevState, copyVars, routeVars, hostVars>>

\* printWithPuppeteer is called for a label of job id with so many copies:
\* every copy task runs up to its await of page.pdf
StartPrint(id, copies) ==
    /\ copyTasks[id] = <<>>
    /\ CountTasks(copyTasks, JobIds) + copies <= MaxCopyTasks
    /\ copyTasks' = [copyTasks EXCEPT ![id] = newCopyTasks(copies)]
    /\ lastPrint' = NoPrint
    /\ UNCHANGED <<serviceVars, breakerVars, now, routeVars, hostVars>>

\* printLabel of job id calls printWithPuppeteer with the copies of the
\* request of the job, the same number at every attempt
PrintJobLabel(id, copies) ==
    /\ id \in running
    /\ labelCopies[id] \in {0, copies}
    /\ copyTasks[id] = <<>>
    /\ CountTasks(copyTasks, JobIds) + copies <= MaxCopyTasks
    /\ copyTasks' = [copyTasks EXCEPT ![id] = newCopyTasks(copies)]
    /\ lastPrint' = NoPrint
    /\ labelCopies' = [labelCopies EXCEPT ![id] = copies]
    /\ UNCHANGED <<serviceVars, breakerVars, now, routeVars, processVars, spooled,
                   otherVars>>

\* page.pdf settles for copy k of job id, dt milliseconds after the last
\* reading of the clock: the task reads Date.now() for the name of its file
\* and writes it, or its catch records the failure
PdfReturns(id, k, ok, dt) ==
    /\ k \in DOMAIN copyTasks[id]
    /\ copyTasks[id][k].stage = "pdf"
    /\ now + dt <= MaxNow
    /\ now' = now + dt
    /\ copyTasks' = [copyTasks EXCEPT ![id][k] =
           IF ok THEN [stage |-> "file", timestamp |-> now + dt]
           ELSE [stage |-> "failed", timestamp |-> 0]]
    /\ lastPrint' = NoPrint
    /\ UNCHANGED <<serviceVars, breakerVars, routeVars, hostVars>>

\* writeFile and PDFtoPrinter settle for copy k of job id
SpoolReturns(id, k, ok) ==
    /\ k \in DOMAIN copyTasks[id]
    /\ copyTasks[id][k].stage = "file"
    /\ copyTasks' = [copyTasks EXCEPT ![id][k] =
           [stage |-> IF ok THEN "ok" ELSE "failed", timestamp |-> 0]]
    /\ lastPrint' = NoPrint
    /\ UNCHANGED <<serviceVars, breakerVars, now, routeVars, hostVars>>

\* writeFile and PDFtoPrinter settle for copy k of the label of job id; a
\* copy PDFtoPrinter took is with the spooler whatever the call returns
JobCopySpooled(id, k, ok) ==
    /\ labelCopies[id] # 0
    /\ k \in DOMAIN copyTasks[id]
    /\ copyTasks[id][k].stage = "file"
    /\ copyTasks' = [copyTasks EXCEPT ![id][k] =
           [stage |-> IF ok THEN "ok" ELSE "failed", timestamp |-> 0]]
    /\ lastPrint' = NoPrint
    /\ spooled' = [spooled EXCEPT ![id] = IF ok THEN @ + 1 ELSE @]
    /\ UNCHANGED <<serviceVars, breakerVars, now, routeVars, processVars, labelCopies,
                   otherVars>>

\* Promise.allSettled(copyPromises) resolves: the results are evaluated
PrintSettles(id) ==
    /\ copyTasks[id] # <<>>
    /\ \A k \in DOMAIN copyTasks[id] : copyTasks[id][k].stage \in {"ok", "failed"}
    /\ lastPrint' = [job |-> id, copies |-> Len(copyTasks[id]),
                     successful |-> successfulCopies(copyTasks[id]),
                     result |-> copiesResult(copyTasks[id])]
    /\ copyTasks' = [copyTasks EXCEPT ![id] = <<>>]
    /\ UNCHANGED <<serviceVars, breakerVars, now, routeVars, hostVars>>

\* printWithPuppeteer settles for the label of a job the dispatcher is
\* working on, printLabel with it, and processJob goes on: PrintSettles and
\* PrintReturns in one
LabelPrinted(id) ==
    /\ id \in running
    /\ copyTasks[id] # <<>>
    /\ \A k \in DOMAIN copyTasks[id] : copyTasks[id][k].stage \in {"ok", "failed"}
    /\ LET success == copiesResult(copyTasks[id]) = "resolved"
           d == processJobEnd(DState, id, success)
           name == jobs[id].printerName
       IN /\ SetQueue(d.q)
          /\ printers' = d.P
          /\ running' = d.R
          /\ printerErrorCounts' =
                 [printerErrorCounts EXCEPT ![name] = IF success THEN 0 ELSE @ + 1]
          /\ printerLastError' =
                 IF success THEN printerLastError
                 ELSE [printerLastError EXCEPT ![name] = now]
    /\ lastPrint' = [job |-> id, copies |-> Len(copyTasks[id]),
                     successful |-> successfulCopies(copyTasks[id]),
                     result |-> copiesResult(copyTasks[id])]
    /\ copyTasks' = [copyTasks EXCEPT ![id] = <<>>]
    /\ lastResult' = "none"
    /\ UNCHANGED <<config, hung, attempts, admittedBeforeFirstTick, nextId, now,
                   breakerVars, statusChanges, routeVars, hostVars>>

\* everything but the state of the process
restVars == <<serviceVars, now, breakerVars, copyVars, routeVars>>

\* PrintService.destroy(): the intervals are cleared; the queue, the jobs in
\* flight and the retry timers of completeJob are left as they are
Destroy ==
    /\ lifecycle = "running"
    /\ lifecycle' = "destroyed"
    /\ UNCHANGED <<restVars, probed, browserVars, healthRuns, route, ledgerVars, otherVars>>

\* gracefulShutdown, the callback of server.close: destroy(), then
\* process.exit(0) at once
GracefulShutdown ==
    /\ lifecycle # "exited"
    /\ lifecycle' = "exited"
    /\ UNCHANGED <<restVars, probed, browserVars, healthRuns, route, ledgerVars, otherVars>>

\* the state after construction and PrintService.initialize(): empty maps,
\* the registry as discoverPrinters found it
Start(cfg, statuses) ==
    /\ config = cfg
    /\ queue = <<>>
    /\ processingQueue = {}
    /\ completedJobs = {}
    /\ failedJobs = {}
    /\ jobs = [id \in JobIds |-> NoJob]
    /\ retryTimers = {}
    /\ scheduled = [id \in JobIds |-> <<>>]
    /\ printers \in [PrinterNames -> [status : statuses, jobsInQueue : {0}]]
    /\ running = {}
    /\ hung = {}
    /\ attempts = [id \in JobIds |-> 0]
    /\ admittedBeforeFirstTick = 0
    /\ emitted = {}
    /\ lastResult = "none"
    /\ nextId = 1
    /\ now = 0
    /\ printerErrorCounts = [name \in PrinterNames |-> 0]
    /\ printerLastError = [name \in PrinterNames |-> 0]
    /\ breaker = NewBreaker
    /\ pendingCalls = 0
    /\ breakerEvent = "none"
    /\ closedStreak = NoStreak
    /\ halfOpenSuccesses = 0
    /\ prevState = "CLOSED"
    /\ statusChanges = 0
    /\ copyTasks = [id \in JobIds |-> <<>>]
    /\ lastPrint = NoPrint
    /\ reqBody = NoRequest
    /\ response = NoResponse
    /\ lifecycle = "running"
    /\ probed = NoProbe
    /\ browser = "connected"
    /\ recycling = {}
    /\ healthRuns = 0
    /\ route = [i \in 1..MaxRequests |-> NoExchange]
    /\ labelCopies = [id \in JobIds |-> 0]
    /\ spooled = [id \in JobIds |-> 0]
    /\ singleton = NewSingleton
    /\ cache = NewCache

\* mapPrinterStatus: 0, 1, 2 and any other PrinterStatus
Statuses == {"online", "offline", "error"}

(***************************************************************************)
(* Spec: queue, dispatcher and registry; every label has priority medium    *)
(* and is admitted in the same millisecond; the health probe finds the      *)
(* printer ready or offline, and MaxStatusChanges times in another status   *)
(* than before.                                                             *)
(***************************************************************************)
Init == Start(QueueConfig, Statuses)

Next ==
    \/ \E name \in PrinterNames \cup {UnknownPrinter} : SubmitLabel(name, "medium", 0)
    \/ Tick
    \/ \E id \in JobIds, success \in BOOLEAN : PrintReturns(id, success)
    \/ \E id \in JobIds : RetryTimerFires(id)
    \/ \E name \in PrinterNames, outcome \in {"online", "offline"} :
           /\ statusChanges < MaxStatusChanges
           /\ CheckPrinterHealth(name, outcome)

Spec == Init /\ [][Next]_vars

(***************************************************************************)
(* HangSpec: Spec with calls that never return, under the fairness the      *)
(* event loop gives: the interval timer keeps ticking, due timers fire and  *)
(* a call that returns does so eventually.                                  *)
(***************************************************************************)
HangNext ==
    \/ Next
    \/ \E id \in JobIds : CallHangs(id)

HangSpec ==
    /\ Init
    /\ [][HangNext]_vars
    /\ WF_vars(Tick)
    /\ \A id \in JobIds : WF_vars(\E success \in BOOLEAN : PrintReturns(id, success))
    /\ \A id \in JobIds : WF_vars(RetryTimerFires(id))

(***************************************************************************)
(* OrderSpec: labels of every priority admitted over several milliseconds   *)
(* to a printer that stays online.  No retry timer is ever armed here       *)
(* (OrderConfig.maxRetries = 0).                                            *)
(***************************************************************************)
OrderInit == Start(OrderConfig, {"online"})

OrderNext ==
    \/ \E priority \in Priorities, dt \in {0, 1} : SubmitLabel("P1", priority, dt)
    \/ Tick
    \/ \E id \in JobIds, success \in BOOLEAN : PrintReturns(id, success)

OrderSpec == OrderInit /\ [][OrderNext]_vars

(***************************************************************************)
(* BreakerSpec: one CircuitBreaker under overlapping calls of execute, the  *)
(* manual overrides and the passing of time.                                *)
(***************************************************************************)
BreakerInit == Start(QueueConfig, {"online"})

BreakerNext ==
    \/ Execute
    \/ OperationSucceeds
    \/ OperationFails
    \/ ForceOpen
    \/ ForceClose
    \/ TimePasses

BreakerSpec == BreakerInit /\ [][BreakerNext]_vars

(***************************************************************************)
(* CopySpec: printWithPuppeteer called for labels of several jobs that are  *)
(* in flight together.                                                      *)
(***************************************************************************)
CopyInit == Start(QueueConfig, {"online"})

CopyNext ==
    \/ \E id \in JobIds, copies \in 1..MaxCopyTasks : StartPrint(id, copies)
    \/ \E id \in JobIds, k \in 1..MaxCopyTasks, ok \in BOOLEAN, dt \in {0, 1} :
           PdfReturns(id, k, ok, dt)
    \/ \E id \in JobIds, k \in 1..MaxCopyTasks, ok \in BOOLEAN : SpoolReturns(id, k, ok)
    \/ \E id \in JobIds : PrintSettles(id)

CopySpec == CopyInit /\ [][CopyNext]_vars

(***************************************************************************)
(* PrintSpec: the dispatcher with the copy tasks of each printLabel call    *)
(* laid open: the job in flight has its copies rendered and spooled, or     *)
(* fails before any copy task starts (no browser).                          *)
(***************************************************************************)
PrintConfig == [maxQueueSize |-> 2, maxConcurrentJobs |-> 1, batchSize |-> 1,
                maxRetries |-> 1]

PrintInit == Start(PrintConfig, {"online"})

PrintNext ==
    \/ SubmitLabel("P1", "medium", 0)
    \/ Tick
    \/ \E id \in JobIds, copies \in 1..MaxCopyTasks :
           id \in running /\ StartPrint(id, copies)
    \/ \E id \in JobIds, k \in 1..MaxCopyTasks, ok \in BOOLEAN : PdfReturns(id, k, ok, 0)
    \/ \E id \in JobIds, k \in 1..MaxCopyTasks, ok \in BOOLEAN : SpoolReturns(id, k, ok)
    \/ \E id \in JobIds : LabelPrinted(id)
    \/ \E id \in JobIds : copyTasks[id] = <<>> /\ PrintReturns(id, FALSE)
    \/ \E id \in JobIds : RetryTimerFires(id)

PrintSpec == PrintInit /\ [][PrintNext]_vars

(***************************************************************************)
(* ShutdownSpec: the queue and the dispatcher of a process on which         *)
(* destroy() is called, or that is shut down by a signal; nothing runs      *)
(* once the process has exited.                                             *)
(***************************************************************************)
ShutdownInit == Start(QueueConfig, {"online"})

ShutdownNext ==
    \/ lifecycle # "exited" /\ SubmitLabel("P1", "medium", 0)
    \/ Tick
    \/ \E id \in JobIds, success \in BOOLEAN :
           lifecycle # "exited" /\ PrintReturns(id, success)
    \/ \E id \in JobIds : lifecycle # "exited" /\ RetryTimerFires(id)
    \/ Destroy
    \/ GracefulShutdown

ShutdownSpec == ShutdownInit /\ [][ShutdownNext]_vars

(***************************************************************************)
(* RegistrySpec: the queue and the dispatcher with health probes that       *)
(* report any PrinterStatus from -1 to MaxStatusCode, and MaxStatusChanges  *)
(* times one that changes the status of the printer.                        *)
(***************************************************************************)
StatusCodes == (0 - 1)..MaxStatusCode

RegistryInit == Start(PrintConfig, Statuses)

RegistryNext ==
    \/ SubmitLabel("P1", "medium", 0)
    \/ Tick
    \/ \E id \in JobIds, success \in BOOLEAN : PrintReturns(id, success)
    \/ \E name \in PrinterNames, status \in StatusCodes :
           /\ statusChanges < MaxStatusChanges
           /\ ProbeReports(name, status)

RegistrySpec == RegistryInit /\ [][RegistryNext]_vars

(***************************************************************************)
(* The bodies posted to /submit.                                            *)
(***************************************************************************)
SubmitConfig == [maxQueueSize |-> 2, maxConcurrentJobs |-> 1, batchSize |-> 1,
                 maxRetries |-> 0]

\* a label that passes the schema
Label(name) == [printerName |-> name, base64 |-> TRUE, missing |-> {},
                hasCopies |-> TRUE, copies |-> MinCopies]

\* one label without copies, and one label for each way to fail the schema
VariantLabels ==
    {[Label("P1") EXCEPT !.hasCopies = FALSE, !.copies = 0],
     [Label("P1") EXCEPT !.base64 = FALSE],
     [Label("P1") EXCEPT !.missing = {"width"}],
     [Label("P1") EXCEPT !.copies = MinCopies - 1],
     [Label("P1") EXCEPT !.copies = MaxCopies + 1]}

\* batches of labels for the printers in names
BatchesFor(names) == UNION {[1..n -> {Label(name) : name \in names}] : n \in 0..MaxBatch}

\* batches with one variant label at any position
VariantBatches ==
    UNION {{[batch EXCEPT ![i] = label] : i \in DOMAIN batch, label \in VariantLabels} :
              batch \in BatchesFor({"P1"})}

Metadata(priorities) == {[present |-> TRUE, priority |-> p] : p \in priorities}

(***************************************************************************)
(* SubmitSpec: well-formed batches for a known and an unknown printer,      *)
(* found in any status, while the dispatcher runs one job at a time.        *)
(***************************************************************************)
SubmitInit == Start(SubmitConfig, Statuses)

SubmitNext ==
    \/ \E body \in [labels : BatchesFor(PrinterNames \cup {UnknownPrinter}),
                    metadata : Metadata({"medium"})], dt \in {0, 1} :
           SubmitBatch(body, dt)
    \/ Tick
    \/ \E id \in JobIds, success \in BOOLEAN : PrintReturns(id, success)

SubmitSpec == SubmitInit /\ [][SubmitNext]_vars

(***************************************************************************)
(* ValidationSpec: batches that pass the schema and batches that fail it in *)
(* one place, posted for a printer that is online.                          *)
(***************************************************************************)
ValidationInit == Start(SubmitConfig, {"online"})

ValidationNext ==
    \/ \E body \in [labels : BatchesFor({"P1"}) \cup VariantBatches,
                    metadata : {NoRequest.metadata}
                               \cup Metadata({"medium", "none", "urgent"})] :
           SubmitBatch(body, 0)
    \/ Tick
    \/ \E id \in JobIds, success \in BOOLEAN : PrintReturns(id, success)

ValidationSpec == ValidationInit /\ [][ValidationNext]_vars

(***************************************************************************)
(* DefaultSpec: single labels posted with a priority or without one, over   *)
(* several milliseconds, for a printer that is online.  The queue holds at  *)
(* most two jobs, so the sort of getNextJobs makes one comparison at most.  *)
(***************************************************************************)
DefaultInit == Start(SubmitConfig, {"online"})

DefaultNext ==
    \/ \E body \in [labels : {<<Label("P1")>>},
                    metadata : Metadata(Priorities \cup {"none"})], dt \in {0, 1} :
           SubmitBatch(body, dt)
    \/ Tick
    \/ \E id \in JobIds, success \in BOOLEAN : PrintReturns(id, success)

DefaultSpec == DefaultInit /\ [][DefaultNext]_vars

(***************************************************************************)
(* Vocabulary of the properties.                                            *)
(***************************************************************************)
Admitted == 1..(nextId - 1)
Queued == Range(queue) \ processingQueue
Terminal == completedJobs \cup failedJobs

\* the ranks of the ordering rule, stated apart from the code's table
Rank(p) == IF p = "high" THEN 3 ELSE IF p = "medium" THEN 2 ELSE 1

\* q precedes r in (priority rank desc, admission timestamp asc)
Outranks(q, r) ==
    \/ Rank(jobs[q].priority) > Rank(jobs[r].priority)
    \/ /\ Rank(jobs[q].priority) = Rank(jobs[r].priority)
       /\ jobs[q].timestamp < jobs[r].timestamp

\* the body has one of the defects a batch is to be rejected for
Defective(body) ==
    \/ Len(body.labels) = 0
    \/ \E i \in DOMAIN body.labels :
           \/ ~body.labels[i].base64
           \/ body.labels[i].missing # {}
           \/ /\ body.labels[i].hasCopies
              /\ body.labels[i].copies \notin MinCopies..MaxCopies
    \/ /\ body.metadata.present
       /\ body.metadata.priority \notin Priorities \cup {"none"}

\* the step is a POST /submit that the handler answered
HandlerAnswers == routeVars' # routeVars /\ response'.by = "handler"

\* the jobs the step admitted to the queue
AdmittedByStep == {id \in JobIds : id >= nextId /\ id < nextId' /\ id \in Range(queue')}

\* the rank of a job's priority when a missing priority counts as medium
DefaultRank(p) == Rank(IF p = "none" THEN "medium" ELSE p)

\* half of c, rounded up
CeilHalf(c) == (c + 1) \div 2

\* the copy tasks of id that rendered and spooled their copy
Succeeded(id) == {k \in DOMAIN copyTasks[id] : copyTasks[id][k].stage = "ok"}

\* the step settles the print call of id
Settles(id) == id \in running /\ copyTasks[id] # <<>> /\ copyTasks'[id] = <<>>

\* the step starts an attempt of id
Starts(id) == attempts'[id] = attempts[id] + 1

\* the step ends an attempt of id without success
AttemptFails(id) ==
    /\ id \in processingQueue \/ Starts(id)
    /\ id \notin processingQueue'
    /\ id \notin completedJobs'

\* the error gate of the registry holds the printer closed at time t
Unstable(name, t) ==
    /\ printerErrorCounts[name] > UnstableErrors
    /\ t - printerLastError[name] < UnstableWindow

TypeOK ==
    /\ Range(queue) \subseteq JobIds
    /\ processingQueue \subseteq JobIds
    /\ running \subseteq processingQueue

(***************************************************************************)
(* C1: the queue map (queued plus in-flight jobs) never holds more than     *)
(* maxQueueSize jobs, whatever the sequence of addJob, getNextJobs,         *)
(* completeJob and retry-timer re-admissions.                               *)
(***************************************************************************)
C1_QueueWithinCapacity == Len(queue) <= config.maxQueueSize

(***************************************************************************)
(* C2: the number of in-flight jobs never exceeds maxConcurrentJobs, for    *)
(* every interleaving of ticks, completions and retry re-admissions.        *)
(***************************************************************************)
C2_InFlightWithinCap == Cardinality(processingQueue) <= config.maxConcurrentJobs

\* all slots taken by calls still outstanding while another job waits
C2_Witness ==
    /\ Cardinality(running) = config.maxConcurrentJobs
    /\ Queued # {}
    /\ \E id \in running : attempts[id] = 1
    /\ \E id \in Queued : attempts[id] = 1

(***************************************************************************)
(* C3: every admitted job is in exactly one of queued, in-flight,           *)
(* completed-retained, failed-retained, also between a failed attempt and   *)
(* its retry.                                                               *)
(***************************************************************************)
C3_ExactlyOnePlace ==
    \A id \in Admitted :
        Cardinality({place \in {"queued", "inFlight", "completed", "failed"} :
            \/ place = "queued" /\ id \in Queued
            \/ place = "inFlight" /\ id \in processingQueue
            \/ place = "completed" /\ id \in completedJobs
            \/ place = "failed" /\ id \in failedJobs}) = 1

(***************************************************************************)
(* C4: every job that enters processing eventually reaches a terminal       *)
(* state (completed or failed), even when the call made for it never        *)
(* returns.                                                                 *)
(***************************************************************************)
C4_ProcessingTerminates ==
    \A id \in JobIds : (id \in processingQueue) ~> (id \in Terminal)

(***************************************************************************)
(* C5: a job is attempted at most maxRetries + 1 times; a failed attempt    *)
(* with retryCount < maxRetries re-enters the queue with retryCount one     *)
(* higher, and the job enters the failed set, with jobFailed emitted,       *)
(* exactly when an attempt fails with retryCount = maxRetries.              *)
(***************************************************************************)
C5_Step ==
    \A id \in JobIds :
        /\ AttemptFails(id) /\ jobs[id].retryCount < config.maxRetries =>
              /\ id \in retryTimers'
              /\ jobs'[id].retryCount = jobs[id].retryCount + 1
              /\ id \notin failedJobs'
              /\ <<"jobFailed", id>> \notin emitted'
        /\ AttemptFails(id) /\ jobs[id].retryCount = config.maxRetries =>
              /\ id \in failedJobs'
              /\ <<"jobFailed", id>> \in emitted'
              /\ jobs'[id].retryCount = jobs[id].retryCount
        /\ id \in failedJobs' \ failedJobs \/ <<"jobFailed", id>> \in emitted' =>
              AttemptFails(id) /\ jobs[id].retryCount = config.maxRetries
        /\ id \in retryTimers /\ id \notin retryTimers' =>
              /\ id \in Range(queue') \ processingQueue'
              /\ jobs'[id].status = "queued"
              /\ jobs'[id].retryCount = jobs[id].retryCount

C5_RetryBudget ==
    /\ [](\A id \in JobIds : attempts[id] <= config.maxRetries + 1)
    /\ [][C5_Step]_vars

\* a job that used every attempt and was recorded failed
C5_Witness ==
    \E id \in failedJobs :
        /\ attempts[id] = config.maxRetries + 1
        /\ jobs[id].retryCount = config.maxRetries
        /\ <<"jobFailed", id>> \in emitted

(***************************************************************************)
(* C6: dispatch respects (priority rank desc, admission timestamp asc):     *)
(* no job left queued by getNextJobs outranks a job it returned; within a   *)
(* priority class earlier-admitted jobs start no later than later-admitted  *)
(* ones; jobs admitted before the first tick start in rank order (low,      *)
(* high, medium start as high, medium, low when one job runs at a time).    *)
(***************************************************************************)
C6_Step ==
    \A r \in JobIds, q \in Queued :
        Starts(r) /\ ~Starts(q) => ~Outranks(q, r)

C7_Step ==
    /\ lastResult' \in {"admitted", "QueueFull"} =>
          (lastResult' = "QueueFull" <=> Len(queue) >= config.maxQueueSize)
    /\ lastResult' = "QueueFull" =>
          /\ UNCHANGED <<queue, processingQueue, completedJobs, failedJobs, jobs>>
          /\ nextId' = nextId
          /\ emitted' = {}
    /\ lastResult' = "admitted" =>
          /\ queue' = Append(queue, nextId)
          /\ jobs'[nextId].status = "queued"
          /\ emitted' = {<<"jobAdded", nextId>>}

C7_QueueFull == [][C7_Step]_vars

\* an admission was rejected for lack of room
C7_Witness == lastResult = "QueueFull" /\ Len(queue) >= config.maxQueueSize

(***************************************************************************)
(* C8: a job whose printer is unavailable when the dispatcher processes it  *)
(* is recorded failed with an unavailable-printer error on that attempt:    *)
(* it is not re-queued and its retryCount is unchanged.                     *)
(***************************************************************************)
C8_Step ==
    \A id \in JobIds :
        Starts(id) /\ ~isOnline(printers, jobs[id].printerName) =>
            /\ id \in failedJobs'
            /\ jobs'[id].error = "unavailable"
            /\ jobs'[id].retryCount = jobs[id].retryCount
            /\ id \notin retryTimers'
            /\ id \notin Range(queue')

C8_UnavailableFailsAtOnce == [][C8_Step]_vars

(***************************************************************************)
(* C9: while the breaker of a printer is open (the registry holds the       *)
(* printer unstable after its recent print errors) and its next-attempt     *)
(* time has not come, no label submitted for that printer is admitted to    *)
(* the queue.                                                               *)
(***************************************************************************)
C9_Step ==
    lastResult' = "admitted" => ~Unstable(jobs'[nextId].printerName, now')

C9_OpenBreakerRejects == [][C9_Step]_vars

(***************************************************************************)
(* C10: the failed call that makes failureThreshold failures recorded in a  *)
(* row in closed state, all within the monitoring window, opens the breaker *)
(* with nextAttempt = time of that failure + resetTimeout; the breaker then *)
(* stays open until a call made at or after nextAttempt (or a manual        *)
(* forceClose), and every call made before nextAttempt is rejected without  *)
(* starting the operation.                                                  *)
(***************************************************************************)
C10_Step ==
    /\ /\ breakerEvent' = "failure"
       /\ breaker.state = "CLOSED"
       /\ closedStreak.count = BreakerOptions.failureThreshold - 1
       /\ closedStreak.count > 0 => now - closedStreak.since <= BreakerOptions.monitoringPeriod
       => /\ breaker'.state = "OPEN"
          /\ breaker'.nextAttempt = now + BreakerOptions.resetTimeout
    /\ /\ breakerEvent' \in {"rejected", "started"}
       /\ breaker.state = "OPEN"
       /\ now < breaker.nextAttempt
       => /\ breakerEvent' = "rejected"
          /\ pendingCalls' = pendingCalls
          /\ breaker'.state = "OPEN"
          /\ breaker'.nextAttempt = breaker.nextAttempt
    /\ breaker.state = "OPEN" /\ breaker'.state # "OPEN"
       => \/ breakerEvent' = "forceClose"
          \/ breakerEvent' = "started" /\ now >= breaker.nextAttempt

C10_OpensAtThreshold == [][C10_Step]_vars

\* failureThreshold failures in a row tripped the breaker and the next call,
\* made before nextAttempt, was rejected
C10_Witness ==
    /\ breakerEvent = "rejected"
    /\ breaker.state = "OPEN"
    /\ closedStreak.count = BreakerOptions.failureThreshold
    /\ breaker.totalRequests = BreakerOptions.failureThreshold + 1
    /\ breaker.nextAttempt = breaker.lastFailureTime + BreakerOptions.resetTimeout
    /\ now < breaker.nextAttempt

(***************************************************************************)
(* C11: at all times the completed set holds at most the completed cap      *)
(* (1000) and the failed set at most the failed cap (500) of jobs, because  *)
(* eviction runs on every insert into them.                                 *)
(***************************************************************************)
C11_RetentionCaps ==
    /\ Cardinality(completedJobs) <= KeepCompleted
    /\ Cardinality(failedJobs) <= KeepFailed

(***************************************************************************)
(* C12: no two temp PDF files written by copy tasks that run at the same    *)
(* time, of one job or of different jobs in flight, have the same path.     *)
(***************************************************************************)
C12_DistinctTempFiles ==
    \A id1 \in JobIds, id2 \in JobIds :
        \A k1 \in DOMAIN copyTasks[id1], k2 \in DOMAIN copyTasks[id2] :
            /\ <<id1, k1>> # <<id2, k2>>
            /\ copyTasks[id1][k1].stage = "file"
            /\ copyTasks[id2][k2].stage = "file"
            => pdfFileName(copyTasks[id1][k1].timestamp, k1)
                   # pdfFileName(copyTasks[id2][k2].timestamp, k2)

(***************************************************************************)
(* C13: for every batch that passes validation, the number of job ids in    *)
(* successfulJobs plus the number of entries in failedLabels equals the     *)
(* number of labels submitted, also when addJob throws for a full queue;    *)
(* no label is recorded twice and totalLabels is the size of the batch.     *)
(***************************************************************************)
C13_EveryLabelAccounted ==
    response.by = "handler" =>
        /\ Len(response.successfulJobs) + Len(response.failedLabels)
               = Len(reqBody.labels)
        /\ response.totalLabels = Len(reqBody.labels)
        /\ \A i \in DOMAIN response.failedLabels, j \in DOMAIN response.failedLabels :
               response.failedLabels[i].label = response.failedLabels[j].label => i = j

\* one label of the batch was admitted and addJob threw for the next one
C13_Witness ==
    /\ response.by = "handler"
    /\ Len(response.successfulJobs) = 1
    /\ \E i \in DOMAIN response.failedLabels : response.failedLabels[i].error = "QueueFull"

(***************************************************************************)
(* C14: the handler answers a validated batch with 200 exactly when every   *)
(* label was admitted, with 207 exactly when at least one label was         *)
(* admitted and at least one failed, and with 400 exactly when no label     *)
(* was admitted.                                                            *)
(***************************************************************************)
C14_Step ==
    HandlerAnswers =>
        LET labels == Len(reqBody'.labels)
            admitted == Cardinality(AdmittedByStep)
        IN /\ response'.status \in {200, 207, 400}
           /\ response'.status = 200 <=> admitted = labels
           /\ response'.status = 207 <=> admitted >= 1 /\ admitted < labels
           /\ response'.status = 400 <=> admitted = 0

C14_StatusByOutcome == [][C14_Step]_vars

\* a batch of two labels, the second for an unknown printer, answered with 207
C14_Witness ==
    /\ response.by = "handler"
    /\ response.status = 207
    /\ Len(reqBody.labels) = 2
    /\ reqBody.labels[2].printerName = UnknownPrinter
    /\ Len(response.successfulJobs) = 1

(***************************************************************************)
(* C15: a batch with no labels, with a label whose HTML is not base64, that *)
(* lacks a required field or asks for copies outside 1..10, or with a       *)
(* priority outside low, medium, high is answered 400 by the validation     *)
(* middleware before any queueing: no job is created, nothing is emitted    *)
(* and the queue, the in-flight set and the two result sets are unchanged.  *)
(***************************************************************************)
C15_Step ==
    routeVars' # routeVars /\ Defective(reqBody') =>
        /\ response'.by = "validation"
        /\ response'.status = 400
        /\ response'.successfulJobs = <<>>
        /\ UNCHANGED <<queue, processingQueue, completedJobs, failedJobs, jobs>>
        /\ nextId' = nextId
        /\ emitted' = {}

C15_InvalidBatchRejected == [][C15_Step]_vars

\* a batch whose second label asks for eleven copies was turned away while a
\* job was queued and room was left
C15_Witness ==
    /\ response.by = "validation"
    /\ Len(reqBody.labels) = 2
    /\ reqBody.labels[1] = Label("P1")
    /\ reqBody.labels[2].copies = MaxCopies + 1
    /\ reqBody.metadata = [present |-> TRUE, priority |-> "medium"]
    /\ Len(queue) = 1

(***************************************************************************)
(* C16: a batch posted without metadata.priority is admitted and scheduled  *)
(* as medium: when the dispatcher takes a job, no queued high-priority job  *)
(* is left behind a job without priority, and no queued job without         *)
(* priority is left behind a low-priority job.                              *)
(***************************************************************************)
C16_Step ==
    /\ routeVars' # routeVars /\ reqBody'.metadata.priority = "none" =>
           response'.status = 200 \/ ~addJobAdmits(QState)
    /\ \A r \in JobIds, q \in Queued :
           /\ Starts(r) /\ ~Starts(q)
           /\ "none" \in {jobs[r].priority, jobs[q].priority}
           => DefaultRank(jobs[q].priority) <= DefaultRank(jobs[r].priority)

C16_DefaultPriorityMedium == [][C16_Step]_vars

(***************************************************************************)
(* C17: when the c copy tasks of a job's label have settled, the job is     *)
(* marked completed if and only if at least half of c, rounded up, of them  *)
(* succeeded; otherwise the attempt is marked failed: completeJob records    *)
(* the print error and puts the job in the failed set or, while it has      *)
(* retries left, arms its retry timer.                                      *)
(***************************************************************************)
C17_Step ==
    \A id \in JobIds :
        Settles(id) =>
            LET enough == Cardinality(Succeeded(id)) >= CeilHalf(Len(copyTasks[id]))
            IN /\ id \in completedJobs' <=> enough
               /\ ~enough =>
                      /\ AttemptFails(id)
                      /\ jobs'[id].error = "print"
                      /\ IF jobs[id].retryCount < config.maxRetries
                         THEN id \in retryTimers' /\ id \notin failedJobs'
                         ELSE id \in failedJobs' /\ jobs'[id].status = "failed"
               /\ enough => jobs'[id].status = "completed"

C17_HalfTheCopies == [][C17_Step]_vars

\* one of two copies failed and the job was marked completed
C17_Witness ==
    /\ lastPrint.copies = 2
    /\ lastPrint.successful = 1
    /\ lastPrint.job \in completedJobs
    /\ copyTasks[lastPrint.job] = <<>>

(***************************************************************************)
(* C18: the in-flight count of a printer always equals the number of        *)
(* dispatcher tasks working on that printer: every increment is undone      *)
(* exactly once, so a task that settles, or that fails because the printer  *)
(* is offline, leaves the count where it was before the task started.       *)
(***************************************************************************)
C18_InFlightCountExact ==
    \A name \in PrinterNames :
        printers[name].jobsInQueue
            = Cardinality({id \in running : jobs[id].printerName = name})

(***************************************************************************)
(* C19: the failure of the task of one job never changes what is recorded   *)
(* for a sibling job: a sibling already in flight keeps its record, its     *)
(* task and its slot, and a sibling taken in the same tick fails or runs    *)
(* by the state of its own printer alone.  Nor does a failure stop later    *)
(* ticks: no job stays in flight without a task, so the slot of every       *)
(* failed job is free again.                                                *)
(***************************************************************************)
C19_Step ==
    \A a \in JobIds, b \in JobIds :
        a # b /\ AttemptFails(a) =>
            /\ b \in processingQueue /\ ~AttemptFails(b) /\ b \notin completedJobs' =>
                   /\ jobs'[b] = jobs[b]
                   /\ b \in processingQueue'
                   /\ b \in running' <=> b \in running
            /\ Starts(b) =>
                   IF isOnline(printers, jobs[b].printerName)
                   THEN b \in running' /\ b \in processingQueue'
                           /\ jobs'[b].status = "processing"
                   ELSE AttemptFails(b) /\ jobs'[b].error = "unavailable"

C19_FailuresIsolated ==
    /\ [][C19_Step]_vars
    /\ [](processingQueue = running)

\* two jobs taken in the first tick: the print of the first failed, the
\* second went on and completed
C19_Witness ==
    /\ admittedBeforeFirstTick = 2
    /\ attempts[1] = 1 /\ attempts[2] = 1
    /\ jobs[1].error = "print"
    /\ 1 \notin processingQueue
    /\ 2 \in completedJobs

(***************************************************************************)
(* C20, as stated: every job in the completed set has a retry count         *)
(* strictly less than maxRetries, or was completed on its first attempt.    *)
(***************************************************************************)
C20_RetryCountBelowMax ==
    \A id \in completedJobs :
        jobs[id].retryCount < config.maxRetries \/ attempts[id] = 1

(***************************************************************************)
(* C20, amended: every job in the completed set has a retry count of at     *)
(* most maxRetries, and the count is the number of attempts that failed     *)
(* before the one that completed it.                                        *)
(***************************************************************************)
C20_RetryCountWithinMax ==
    \A id \in completedJobs :
        /\ jobs[id].retryCount <= config.maxRetries
        /\ jobs[id].retryCount = attempts[id] - 1

\* a job completed by its last retry
C20_Witness ==
    \E id \in completedJobs :
        /\ config.maxRetries >= 1
        /\ jobs[id].retryCount = config.maxRetries
        /\ attempts[id] = config.maxRetries + 1
        /\ jobs[id].status = "completed"

(***************************************************************************)
(* C21: when the process has exited after a shutdown, no job is left in     *)
(* the processing state: every job that was still in flight has been        *)
(* marked failed with Cancelled.                                            *)
(***************************************************************************)
C21_NoJobLeftProcessing ==
    lifecycle = "exited" =>
        /\ processingQueue = {}
        /\ \A id \in Admitted : jobs[id].status # "processing"

(***************************************************************************)
(* C22: the PrinterStatus integer of the OS maps to online for 0, offline   *)
(* for 1, error for 2 and offline for every other value: that is the        *)
(* status the registry holds after a probe has reported the integer.        *)
(***************************************************************************)
C22_Step ==
    probed' # probed =>
        printers'[probed'.name].status =
            IF probed'.status = 0 THEN "online"
            ELSE IF probed'.status = 2 THEN "error"
            ELSE "offline"

C22_StatusMapping == [][C22_Step]_vars

\* a probe reported a status above 2 for a printer that was online or in
\* error, and the registry holds the printer offline
C22_Witness ==
    /\ probed.name \in PrinterNames
    /\ probed.status > 2
    /\ printers[probed.name].status = "offline"
    /\ statusChanges > 0

(***************************************************************************)
(* C23: the batches of getNextJobs are mutually disjoint: a batch holds no  *)
(* job twice and no job that an earlier call returned and that is still in  *)
(* flight; a job is returned again only after completeJob has been called   *)
(* for every earlier time it was returned and its retry timer has put it    *)
(* back in the queue.                                                       *)
(***************************************************************************)
C23_Step ==
    \A id \in JobIds :
        Starts(id) =>
            /\ id \notin processingQueue
            /\ id \notin running
            /\ id \in Range(queue)
            /\ id \notin retryTimers
            /\ jobs[id].retryCount = attempts[id]

C23_DisjointBatches ==
    /\ [][C23_Step]_vars
    /\ [](LET batch == nextBatch(QState, config.batchSize)
           IN /\ Range(batch) \cap processingQueue = {}
              /\ Cardinality(Range(batch)) = Len(batch))

\* a job returned a second time, after its first attempt failed and its
\* retry timer fired, while another job is in flight
C23_Witness ==
    \E id \in processingQueue :
        /\ attempts[id] = 2
        /\ jobs[id].retryCount = 1
        /\ Cardinality(processingQueue) = 2

(***************************************************************************)
(* BrowserSpec: the dispatcher with a browser that can lose its connection. *)
(* printLabel of every job started while the browser is not connected       *)
(* awaits its own reinitializeBrowser(): close, a pause of 3 s, launch.      *)
(***************************************************************************)
\* the Chromium process dies or its pipe closes: browser.connected is false
BrowserDisconnects ==
    /\ browser = "connected"
    /\ browser' = "disconnected"
    /\ UNCHANGED <<restVars, lifecycle, probed, recycling, healthRuns, route, ledgerVars, otherVars>>

\* reinitializeBrowser() of the printLabel call of job id returns:
\* initializePuppeteer assigned a fresh browser, and printLabel goes on
ReinitializeBrowserReturns(id) ==
    /\ id \in recycling
    /\ recycling' = recycling \ {id}
    /\ browser' = "connected"
    /\ UNCHANGED <<restVars, lifecycle, probed, healthRuns, route, ledgerVars, otherVars>>

BrowserInit == Start(QueueConfig, {"online"})

BrowserNext ==
    \/ SubmitLabel("P1", "medium", 0)
    \/ Tick
    \/ \E id \in JobIds, success \in BOOLEAN : PrintReturns(id, success)
    \/ \E id \in JobIds : RetryTimerFires(id)
    \/ BrowserDisconnects
    \/ \E id \in JobIds : ReinitializeBrowserReturns(id)

BrowserSpec == BrowserInit /\ [][BrowserNext]_vars

(***************************************************************************)
(* C24: the operations that mutate the browser lifecycle are mutually       *)
(* exclusive: at no time are two calls of reinitializeBrowser() in          *)
(* progress, also when several jobs in flight find the browser              *)
(* disconnected at the same moment.                                         *)
(***************************************************************************)
C24_LifecycleMutuallyExclusive == Cardinality(recycling) <= 1

(***************************************************************************)
(* HealthSpec: the health loop of PrinterService.  setInterval calls        *)
(* checkPrinterHealth every printerHealthCheckInterval ms; a call returns    *)
(* when the Get-Printer command of every printer has answered.              *)
(***************************************************************************)
\* the callback of setInterval: it calls checkPrinterHealth, which starts
\* the probes and awaits them.  destroy() clears the interval.
HealthTick ==
    /\ lifecycle = "running"
    /\ healthRuns < MaxHealthRuns
    /\ healthRuns' = healthRuns + 1
    /\ UNCHANGED <<restVars, lifecycle, probed, browserVars, route, ledgerVars, otherVars>>

\* the probe of one call of checkPrinterHealth answers, and the call returns
HealthRunReturns(name, status) ==
    /\ healthRuns > 0
    /\ HealthProbe(name, mapPrinterStatus(status))
    /\ probed' = [name |-> name, status |-> status]
    /\ healthRuns' = healthRuns - 1
    /\ UNCHANGED <<route, ledgerVars, otherVars>>

HealthInit == Start(PrintConfig, {"online"})

HealthNext ==
    \/ SubmitLabel("P1", "medium", 0)
    \/ Tick
    \/ \E id \in JobIds, success \in BOOLEAN : PrintReturns(id, success)
    \/ HealthTick
    \/ \E name \in PrinterNames, status \in 0..1 :
           /\ statusChanges < MaxStatusChanges
           /\ HealthRunReturns(name, status)

HealthSpec == HealthInit /\ [][HealthNext]_vars

(***************************************************************************)
(* C25: the printer health loop never runs concurrently with itself: a     *)
(* tick of the interval that fires while the probes of the previous tick    *)
(* are outstanding starts no second run of checkPrinterHealth.              *)
(***************************************************************************)
C25_HealthLoopNeverOverlaps == healthRuns <= 1

(***************************************************************************)
(* C26: once PrintService.destroy() has been called, no job moves from      *)
(* queued to processing and no pending retry timer puts a job back into     *)
(* the queue.                                                               *)
(***************************************************************************)
C26_Step ==
    lifecycle = "destroyed" =>
        \A id \in JobIds :
            /\ ~Starts(id)
            /\ id \in retryTimers => id \in retryTimers'

C26_NoTaskAfterDestroy == [][C26_Step]_vars

(***************************************************************************)
(* C27: a call of execute made while the breaker is open and now is before  *)
(* nextAttempt is rejected: the operation is not started, and state,        *)
(* failureCount, successCount and nextAttempt are left as they were.        *)
(***************************************************************************)
C27_Step ==
    /\ breakerEvent' \in {"rejected", "started"}
    /\ breaker.state = "OPEN"
    /\ now < breaker.nextAttempt
    => /\ breakerEvent' = "rejected"
       /\ pendingCalls' = pendingCalls
       /\ breaker'.state = breaker.state
       /\ breaker'.failureCount = breaker.failureCount
       /\ breaker'.successCount = breaker.successCount
       /\ breaker'.nextAttempt = breaker.nextAttempt

C27_OpenRejectsUnchanged == [][C27_Step]_vars

\* a call was rejected by a breaker that was opened again after one success
\* in half-open: the success count of that episode is still there
C27_Witness ==
    /\ breakerEvent = "rejected"
    /\ prevState = "OPEN"
    /\ breaker.state = "OPEN"
    /\ breaker.successCount = 1
    /\ now < breaker.nextAttempt

(***************************************************************************)
(* C28: in closed state only the failures inside the monitoring window      *)
(* count: a failure recorded more than monitoringPeriod after the failure   *)
(* before it is the only one in its window, and does not open the breaker   *)
(* (failureThreshold is above 1).                                           *)
(***************************************************************************)
C28_Step ==
    /\ breakerEvent' = "failure"
    /\ breaker.state = "CLOSED"
    /\ BreakerOptions.failureThreshold > 1
    /\ breaker.lastFailureTime # NoTime
    /\ now - breaker.lastFailureTime > BreakerOptions.monitoringPeriod
    => breaker'.state = "CLOSED"

C28_OldFailuresDecay == [][C28_Step]_vars

(***************************************************************************)
(* C29: the first call of execute made on an open breaker at or after       *)
(* nextAttempt moves it to half-open with success count 0 and starts the    *)
(* operation; a half-open breaker then returns to closed, with failure and  *)
(* success counts at 0, exactly at the success that is the                  *)
(* successThreshold-th recorded since it became half-open (a failure in     *)
(* between has opened it again; forceClose apart).                          *)
(***************************************************************************)
C29_Step ==
    /\ /\ breakerEvent' \in {"rejected", "started"}
       /\ breaker.state = "OPEN"
       /\ now >= breaker.nextAttempt
       => /\ breakerEvent' = "started"
          /\ pendingCalls' = pendingCalls + 1
          /\ breaker'.state = "HALF_OPEN"
          /\ breaker'.successCount = 0
    /\ breaker.state = "HALF_OPEN" /\ breakerEvent' # "forceClose"
       => /\ breaker'.state = "CLOSED"
             <=> /\ breakerEvent' = "success"
                 /\ halfOpenSuccesses' = BreakerOptions.successThreshold
          /\ breaker'.state = "CLOSED"
             => breaker'.failureCount = 0 /\ breaker'.successCount = 0
    /\ breaker.state = "OPEN" /\ breaker'.state = "CLOSED" => breakerEvent' = "forceClose"

C29_HalfOpenRecovery == [][C29_Step]_vars

\* the breaker was tripped by failures, became half-open and was closed by
\* the successThreshold-th success
C29_Witness ==
    /\ breakerEvent = "success"
    /\ prevState = "HALF_OPEN"
    /\ breaker.state = "CLOSED"
    /\ halfOpenSuccesses = BreakerOptions.successThreshold
    /\ breaker.lastFailureTime # NoTime
    /\ breaker.failureCount = 0

(***************************************************************************)
(* C30: a failure recorded while the breaker is half-open moves it to open  *)
(* with nextAttempt = time of that failure + resetTimeout, whatever the     *)
(* number of successes recorded in half-open so far.                        *)
(***************************************************************************)
C30_Step ==
    breakerEvent' = "failure" /\ breaker.state = "HALF_OPEN"
    => /\ breaker'.state = "OPEN"
       /\ breaker'.nextAttempt = now + BreakerOptions.resetTimeout

C30_HalfOpenFailureReopens == [][C30_Step]_vars

\* a half-open breaker that had recorded a success was opened by a failure
C30_Witness ==
    /\ breakerEvent = "failure"
    /\ prevState = "HALF_OPEN"
    /\ breaker.state = "OPEN"
    /\ halfOpenSuccesses = 1
    /\ breaker.successCount = 1
    /\ breaker.nextAttempt = now + BreakerOptions.resetTimeout

(***************************************************************************)
(* GateSpec: the dispatcher with a printer whose print calls fail, and a    *)
(* clock that can run past the window of the error gate.                    *)
(***************************************************************************)
\* UnstableWindow milliseconds pass with nothing happening
WindowElapses ==
    /\ now < UnstableWindow
    /\ now' = now + UnstableWindow
    /\ UNCHANGED <<serviceVars, breakerVars, copyVars, routeVars, hostVars>>

GateInit == Start(PrintConfig, {"online"})

GateNext ==
    \/ SubmitLabel("P1", "medium", 0)
    \/ Tick
    \/ \E id \in JobIds, success \in BOOLEAN : PrintReturns(id, success)
    \/ \E id \in JobIds : RetryTimerFires(id)
    \/ \E name \in PrinterNames, outcome \in Statuses :
           statusChanges < MaxStatusChanges /\ CheckPrinterHealth(name, outcome)
    \/ WindowElapses

GateSpec == GateInit /\ [][GateNext]_vars

(***************************************************************************)
(* C31: a printer is reported available exactly when the registry holds a   *)
(* record of it, its status is online, and it is not the case that it has   *)
(* more than 3 print errors in a row with the last one less than 5 minutes  *)
(* old.  PrinterService keeps no breaker for a printer, so nothing else     *)
(* can hold a printer back: the dispatcher starts the print call of a job   *)
(* exactly when its printer is available in this sense.                     *)
(***************************************************************************)
AvailableByRule(name) ==
    /\ name \in DOMAIN printers
    /\ printers[name].status = "online"
    /\ ~(/\ printerErrorCounts[name] > 3
         /\ now - printerLastError[name] < 300000)

C31_Step ==
    \A id \in JobIds :
        Starts(id) => (id \in running' <=> AvailableByRule(jobs[id].printerName))

ResponseCodes == {200, 400}

\* the wrapper is called: it arms the timer and calls the handler
RequestArrives(i) ==
    /\ route[i].handler = "idle"
    /\ route' = [route EXCEPT ![i] = [NoExchange EXCEPT !.handler = "running",
                                                         !.timer = "armed"]]
    /\ UNCHANGED <<restVars, lifecycle, probed, browserVars, healthRuns, ledgerVars, otherVars>>

\* the handler calls res.status(status).json(...) and returns.  When the
\* headers are sent already, res.json throws and the handler rejects; the
\* race is settled by then, so the rejection reaches no catch block.
HandlerResponds(i, status) ==
    /\ route[i].handler = "running"
    /\ LET r == [route[i] EXCEPT !.handler = "finished", !.tried = status]
       IN route' = [route EXCEPT ![i] =
                       IF headersSent(r)
                       THEN IF r.settled = "none"
                            THEN catchBlock(settle(r, "handler"), "error")
                            ELSE r
                       ELSE settle([r EXCEPT !.sent = <<status>>], "handler")]
    /\ UNCHANGED <<restVars, lifecycle, probed, browserVars, healthRuns, ledgerVars, otherVars>>

\* the handler throws an error of the given kind before it has responded
HandlerThrows(i, kind) ==
    /\ route[i].handler = "running"
    /\ LET r == [route[i] EXCEPT !.handler = "finished"]
       IN route' = [route EXCEPT ![i] =
                       IF r.settled = "none"
                       THEN catchBlock(settle(r, "handler"), kind)
                       ELSE r]
    /\ UNCHANGED <<restVars, lifecycle, probed, browserVars, healthRuns, ledgerVars, otherVars>>

\* the timer of the wrapper fires: timeoutPromise rejects
TimerFires(i) ==
    /\ route[i].timer = "armed"
    /\ LET r == [route[i] EXCEPT !.timer = "fired"]
       IN route' = [route EXCEPT ![i] =
                       IF r.settled = "none"
                       THEN catchBlock(settle(r, "timer"), "timeout")
                       ELSE r]
    /\ UNCHANGED <<restVars, lifecycle, probed, browserVars, healthRuns, ledgerVars, otherVars>>

RouteInit == Start(QueueConfig, {"online"})

RouteNext ==
    \/ \E i \in 1..MaxRequests : RequestArrives(i)
    \/ \E i \in 1..MaxRequests, status \in ResponseCodes : HandlerResponds(i, status)
    \/ \E i \in 1..MaxRequests, kind \in {"error", "timeout"} : HandlerThrows(i, kind)
    \/ \E i \in 1..MaxRequests : TimerFires(i)

RouteSpec == RouteInit /\ [][RouteNext]_vars

(***************************************************************************)
(* C32: for every request handled through withTimeout exactly one response  *)
(* is sent: none before the race of handler and timer has settled, one      *)
(* from then on.  It is the response of the handler when the handler        *)
(* responded before the timer fired, and a 504 when the timer fired first;  *)
(* a handler that finishes after the timer sends nothing more.              *)
(***************************************************************************)
C32_Step ==
    \A i \in 1..MaxRequests :
        /\ Len(route'[i].sent) = IF route'[i].settled = "none" THEN 0 ELSE 1
        /\ route[i].sent # <<>> => route'[i].sent = route[i].sent
        /\ route'[i].settled = "timer" => route'[i].sent = <<504>>
        /\ route'[i].settled = "handler" /\ route'[i].tried # 0
           => route'[i].sent = <<route'[i].tried>>

RetryConfig == [maxQueueSize |-> 2, maxConcurrentJobs |-> 1, batchSize |-> 1,
                maxRetries |-> 2]

RetryInit == Start(RetryConfig, {"online"})

RetryNext ==
    \/ SubmitLabel("P1", "medium", 0)
    \/ Tick
    \/ \E id \in JobIds, success \in BOOLEAN : PrintReturns(id, success)
    \/ \E id \in JobIds : RetryTimerFires(id)

RetrySpec == RetryInit /\ [][RetryNext]_vars

FairInit == Start(PrintConfig, {"online"})

\* the condition under which the interval callback of startProcessing has a
\* batch to start: the service runs, a slot is free, a job is pending
TickEnabled ==
    /\ lifecycle = "running"
    /\ availableSlots(QState) > 0
    /\ nextBatch(QState, Min(availableSlots(QState), config.batchSize)) # <<>>

FairNext ==
    \/ \E priority \in Priorities :
           /\ nextId < MaxJobs
           /\ SubmitLabel("P1", priority, 0)
    \/ Tick
    \/ \E id \in JobIds, success \in BOOLEAN : PrintReturns(id, success)
    \/ \E id \in JobIds : RetryTimerFires(id)

\* weak fairness of the three kinds of callback; for Tick it is written out
\* with its enabling condition, []<>~ENABLED <<Tick>>_vars \/ []<><<Tick>>_vars
FairSpec ==
    /\ FairInit
    /\ [][FairNext]_vars
    /\ ([]<>(~TickEnabled) \/ []<><<Tick>>_vars)
    /\ WF_vars(\E id \in JobIds, success \in BOOLEAN : PrintReturns(id, success))
    /\ WF_vars(\E id \in JobIds : RetryTimerFires(id))

(***************************************************************************)
(* C34: when admissions stop and every print call returns, every admitted   *)
(* job reaches the completed or the failed set, whatever its priority.      *)
(***************************************************************************)
C34_EveryJobSettles ==
    \A id \in JobIds : (id \in Admitted) ~> (id \in Terminal)

\* a job of low priority was retried and completed while a job of high
\* priority, admitted after it, is settled too
C34_Witness ==
    \E id, other \in Terminal :
        /\ jobs[id].priority = "low"
        /\ jobs[id].retryCount = 1
        /\ id \in completedJobs
        /\ jobs[other].priority = "high"
        /\ other > id

(***************************************************************************)
(* LedgerSpec: PrintSpec with the copies of each request fixed over the     *)
(* attempts of its job and the copies taken by the spooler counted.         *)
(***************************************************************************)
LedgerInit == Start(PrintConfig, {"online"})

LedgerNext ==
    \/ nextId < MaxJobs /\ SubmitLabel("P1", "medium", 0)
    \/ Tick
    \/ \E id \in JobIds, copies \in 1..MaxCopyTasks : PrintJobLabel(id, copies)
    \/ \E id \in JobIds, k \in 1..MaxCopyTasks, ok \in BOOLEAN : PdfReturns(id, k, ok, 0)
    \/ \E id \in JobIds, k \in 1..MaxCopyTasks, ok \in BOOLEAN : JobCopySpooled(id, k, ok)
    \/ \E id \in JobIds : LabelPrinted(id)
    \/ \E id \in JobIds : copyTasks[id] = <<>> /\ PrintReturns(id, FALSE)
    \/ \E id \in JobIds : RetryTimerFires(id)

LedgerSpec == LedgerInit /\ [][LedgerNext]_vars

(***************************************************************************)
(* C35: over all the attempts of a job, the copies handed to the spooler    *)
(* never exceed the copies its request asks for.                            *)
(***************************************************************************)
C35_NoCopyPrintedTwice ==
    \A id \in JobIds : labelCopies[id] # 0 => spooled[id] <= labelCopies[id]

(***************************************************************************)
(* C36: every id in the set of jobs in flight is an id of the queue, so     *)
(* the queued count of getQueueStatus is the number of jobs of the queue    *)
(* not in flight, is never negative, and adds up with the processing count  *)
(* to the size of the queue.                                                *)
(***************************************************************************)
C36_ProcessingWithinQueue ==
    LET status == getQueueStatus(QState) IN
    /\ processingQueue \subseteq Range(queue)
    /\ status.queued >= 0
    /\ status.queued = Cardinality(Range(queue) \ processingQueue)
    /\ status.queued + status.processing = Len(queue)

\* a job is in flight and another waits, after a job failed, was put back by
\* its retry timer and completed
C36_Witness ==
    /\ getQueueStatus(QState).queued = 1
    /\ getQueueStatus(QState).processing = 1
    /\ \E id \in completedJobs : jobs[id].retryCount > 0

(***************************************************************************)
(* C37: while the breaker is closed its failure count is below the failure  *)
(* threshold, whatever the order in which overlapping calls of execute      *)
(* settle and forceOpen and forceClose are called.                          *)
(***************************************************************************)
C37_ClosedBelowThreshold ==
    breaker.state = "CLOSED" => breaker.failureCount < BreakerOptions.failureThreshold

\* a closed breaker that has taken more than failureThreshold calls counts a
\* failure, one short of the threshold, while another call is outstanding
C37_Witness ==
    /\ breakerEvent = "failure"
    /\ breaker.state = "CLOSED"
    /\ prevState = "CLOSED"
    /\ breaker.failureCount = BreakerOptions.failureThreshold - 1
    /\ breaker.nextAttempt = 0
    /\ breaker.totalRequests > BreakerOptions.failureThreshold
    /\ pendingCalls > 0

(***************************************************************************)
(* C38: a job in the completed set carries no error, even when attempts     *)
(* before the successful one failed.                                        *)
(***************************************************************************)
C38_CompletedCarriesNoError ==
    \A id \in completedJobs : jobs[id].error = "none"

(***************************************************************************)
(* InitSpec: PrintService.initialize() called on the singleton, by the      *)
(* server at start-up and by the routes, while earlier calls may still      *)
(* await printerService.initialize(); destroy() in between.                 *)
(***************************************************************************)
\* initialize() up to its await: skipped when isInitialized is set
InitializeCalled ==
    /\ singleton.calls < MaxInitCalls
    /\ singleton' = [singleton EXCEPT
           !.calls = @ + 1,
           !.pending = IF singleton.isInitialized THEN @ ELSE @ + 1]
    /\ UNCHANGED <<restVars, processVars, ledgerVars, cache>>

\* printerService.initialize() settles for one call of initialize(): on
\* success startProcessing and startMetricsCollection set their intervals
\* and isInitialized is set; on failure the error is rethrown
PrinterServiceInitialized(ok) ==
    /\ singleton.pending > 0
    /\ LET handle == singleton.handles + 1
       IN singleton' =
            IF ok
            THEN [singleton EXCEPT
                     !.pending = @ - 1,
                     !.handles = handle,
                     !.processingInterval = handle,
                     !.metricsInterval = handle,
                     !.processingTickers = @ \cup {handle},
                     !.metricsTickers = @ \cup {handle},
                     !.isInitialized = TRUE]
            ELSE [singleton EXCEPT !.pending = @ - 1]
    /\ UNCHANGED <<restVars, processVars, ledgerVars, cache>>

\* destroy() of the singleton: clearInterval on the two handles the fields
\* hold, isInitialized reset
DestroySingleton ==
    /\ singleton' = [singleton EXCEPT
           !.processingTickers = @ \ {singleton.processingInterval},
           !.metricsTickers = @ \ {singleton.metricsInterval},
           !.isInitialized = FALSE]
    /\ UNCHANGED <<restVars, processVars, ledgerVars, cache>>

InitInit == Start(PrintConfig, {"online"})

InitNext ==
    \/ InitializeCalled
    \/ \E ok \in BOOLEAN : PrinterServiceInitialized(ok)
    \/ DestroySingleton

InitSpec == InitInit /\ [][InitNext]_vars

(***************************************************************************)
(* C39: however often and however concurrently initialize() is called on    *)
(* the singleton, at most one dispatcher interval and at most one metrics   *)
(* interval are alive.                                                      *)
(***************************************************************************)
C39_OneTickerEach ==
    /\ Cardinality(singleton.processingTickers) <= 1
    /\ Cardinality(singleton.metricsTickers) <= 1

(***************************************************************************)
(* CacheSpec: the health checks of PrinterCache.  getPrinterStatus,         *)
(* getAllPrinters and the background maintenance call refreshPrinterIfNeeded *)
(* for a printer whose cached record is missing or stale, forceRefreshPrinter *)
(* for any printer; a check is in flight from pendingHealthChecks.add to    *)
(* the finally block.  The cached record the check writes is left out.      *)
(***************************************************************************)
\* refreshPrinterIfNeeded up to its await
refreshPrinterIfNeeded(c, name) ==
    IF name \in c.pendingHealthChecks THEN c
    ELSE IF Cardinality(c.pendingHealthChecks) >= MaxConcurrentChecks THEN c
    ELSE [c EXCEPT !.pendingHealthChecks = @ \cup {name},
                   !.inFlight[name] = @ + 1,
                   !.started = @ + 1]

\* forceRefreshPrinter up to its await
forceRefreshPrinter(c, name) ==
    refreshPrinterIfNeeded([c EXCEPT !.pendingHealthChecks = @ \ {name}], name)

\* getPrinterStatus(name), the setImmediate callback of getAllPrinters or of
\* performBackgroundMaintenance reaches refreshPrinterIfNeeded(name)
RefreshPrinterIfNeeded(name) ==
    /\ cache.started < MaxChecks
    /\ cache' = refreshPrinterIfNeeded(cache, name)
    /\ UNCHANGED <<restVars, processVars, ledgerVars, singleton>>

\* forceRefreshPrinter(name)
ForceRefreshPrinter(name) ==
    /\ cache.started < MaxChecks
    /\ cache' = forceRefreshPrinter(cache, name)
    /\ UNCHANGED <<restVars, processVars, ledgerVars, singleton>>

\* executeWithBreaker settles for a check of name: try or catch, then finally
HealthCheckSettles(name) ==
    /\ cache.inFlight[name] > 0
    /\ cache' = [cache EXCEPT !.inFlight[name] = @ - 1,
                              !.pendingHealthChecks = @ \ {name}]
    /\ UNCHANGED <<restVars, processVars, ledgerVars, singleton>>

CacheInit == Start(PrintConfig, {"online"})

CacheNext ==
    \/ \E name \in CachedNames : RefreshPrinterIfNeeded(name)
    \/ \E name \in CachedNames : ForceRefreshPrinter(name)
    \/ \E name \in CachedNames : HealthCheckSettles(name)

CacheSpec == CacheInit /\ [][CacheNext]_vars

InFlightTotal == cache.inFlight["P1"] + cache.inFlight["P2"] + cache.inFlight["P3"]

(***************************************************************************)
(* C40: at most one health check is in flight for a printer, and at most    *)
(* maxConcurrentChecks in total, however getPrinterStatus, getAllPrinters,  *)
(* the background maintenance and forceRefreshPrinter interleave.           *)
(***************************************************************************)
C40_BoundedHealthChecks ==
    /\ \A name \in CachedNames : cache.inFlight[name] <= 1
    /\ InFlightTotal <= MaxConcurrentChecks

====
